---------------------------- MODULE Spec2Model ----------------------------
(***************************************************************************)
(* Library-Management: the CSV record store (storage.py), the record types *)
(* (model.py), member registration (auth.py) and the lending operations    *)
(* (library.py), as a state machine over the three backing files.          *)
(*                                                                         *)
(* Representation.                                                         *)
(*   - A Python str that the code inspects character by character (isbn,   *)
(*     ids, email, password, the decimal fields of a row) is a sequence of *)
(*     one-character strings.  Titles, names and authors are only tested   *)
(*     for emptiness and are TLA+ strings.                                 *)
(*   - A datetime is a number of clock ticks since midnight of day 0;      *)
(*     there are TicksPerDay ticks in a day.  strftime("%Y-%m-%d") keeps   *)
(*     the day only: the text of a date is the one-element sequence <<d>>  *)
(*     of its day number, and the empty text is <<>>.                      *)
(*   - A backing file is the sequence of its CSV rows, header row first.   *)
(***************************************************************************)
EXTENDS Integers, Sequences, FiniteSets, TLC

\* ------------------------------------------------------------------ bounds
TicksPerDay == 2
MaxLoans == 2

\* ------------------------------------------------------- program constants
LoanDays == 14
FirstMemberId == 1001
FirstLoanId == 1
MinPasswordLen == 8
NoneDate == -1

\* ------------------------------------------------------------- characters
Digits == {"0", "1", "2", "3", "4", "5", "6", "7", "8", "9"}

DigitSeq == <<"0", "1", "2", "3", "4", "5", "6", "7", "8", "9">>

UpperSeq ==
    <<"A", "B", "C", "D", "E", "F", "G", "H", "I", "J", "K", "L", "M",
      "N", "O", "P", "Q", "R", "S", "T", "U", "V", "W", "X", "Y", "Z">>

LowerSeq ==
    <<"a", "b", "c", "d", "e", "f", "g", "h", "i", "j", "k", "l", "m",
      "n", "o", "p", "q", "r", "s", "t", "u", "v", "w", "x", "y", "z">>

UpperAlpha == {UpperSeq[i] : i \in 1..Len(UpperSeq)}

LowerAlpha == {LowerSeq[i] : i \in 1..Len(LowerSeq)}

Alpha == UpperAlpha \cup LowerAlpha

\* str.lower() on one character
LowerChar(c) ==
    IF c \in UpperAlpha
    THEN LowerSeq[CHOOSE i \in 1..Len(UpperSeq) : UpperSeq[i] = c]
    ELSE c

\* str.lower()
Lower(s) == [i \in 1..Len(s) |-> LowerChar(s[i])]

AllIn(s, chars) == \A i \in 1..Len(s) : s[i] \in chars

\* ------------------------------------------------------------ str <-> int
RECURSIVE NatToStr(_)
NatToStr(n) ==
    IF n < 10 THEN <<DigitSeq[n + 1]>>
    ELSE Append(NatToStr(n \div 10), DigitSeq[(n % 10) + 1])

\* str(n)
IntToStr(n) == IF n < 0 THEN <<"-">> \o NatToStr(0 - n) ELSE NatToStr(n)

DigitVal(c) == (CHOOSE i \in 1..Len(DigitSeq) : DigitSeq[i] = c) - 1

RECURSIVE DigitsToNat(_)
DigitsToNat(s) ==
    IF Len(s) = 0 THEN 0
    ELSE 10 * DigitsToNat(SubSeq(s, 1, Len(s) - 1)) + DigitVal(s[Len(s)])

\* int(s) accepts an optional sign followed by decimal digits
IsIntStr(s) ==
    /\ Len(s) > 0
    /\ IF s[1] = "-" THEN Len(s) > 1 /\ AllIn(Tail(s), Digits)
       ELSE AllIn(s, Digits)

\* int(s), for IsIntStr(s)
StrToInt(s) ==
    IF s[1] = "-" THEN 0 - DigitsToNat(Tail(s)) ELSE DigitsToNat(s)

\* ------------------------------------------------------------------ dates
\* datetime.strftime("%Y-%m-%d"): the time of day is dropped
FormatDate(t) == <<t \div TicksPerDay>>

IsDateStr(s) == Len(s) = 1 /\ s[1] \in Nat

\* datetime.strptime(s, "%Y-%m-%d"): midnight of that day
ParseDate(s) == s[1] * TicksPerDay

\* timedelta(days=n)
DaysDelta(n) == n * TicksPerDay

\* (a - b).days, whole days rounded towards minus infinity
WholeDays(a, b) == (a - b) \div TicksPerDay

\* ------------------------------------------------------------ record types
\* What a failed lookup returns (Python's None for an Optional[T])
NoItem == [none |-> TRUE]

\* re.match(r'^\d{10}(\d{3})?$', isbn): ten or thirteen digits; "$" also
\* matches before a newline that ends the string
IsbnOk(isbn) ==
    \/ Len(isbn) \in {10, 13} /\ AllIn(isbn, Digits)
    \/ /\ Len(isbn) \in {11, 14}
       /\ isbn[Len(isbn)] = "\n"
       /\ AllIn(SubSeq(isbn, 1, Len(isbn) - 1), Digits)

\* Book.__post_init__: the checks that raise ValueError
BookValid(b) ==
    /\ IsbnOk(b.isbn)
    /\ b.copies_total >= 0
    /\ b.copies_available >= 0
    /\ b.copies_available <= b.copies_total

\* Book(...): ok is FALSE when the constructor raises
Book(isbn, title, author, copies_total, copies_available) ==
    LET b == [isbn |-> isbn, title |-> title, author |-> author,
              copies_total |-> copies_total,
              copies_available |-> copies_available]
    IN  IF BookValid(b) THEN [ok |-> TRUE, item |-> b]
        ELSE [ok |-> FALSE, item |-> NoItem]

\* Book.to_csv_row
BookToRow(b) ==
    <<b.isbn, b.title, b.author,
      IntToStr(b.copies_total), IntToStr(b.copies_available)>>

\* Book.from_csv_row
BookFromRow(row) ==
    IF Len(row) # 5 THEN [ok |-> FALSE, item |-> NoItem]
    ELSE IF ~(IsIntStr(row[4]) /\ IsIntStr(row[5]))
    THEN [ok |-> FALSE, item |-> NoItem]
    ELSE Book(row[1], row[2], row[3], StrToInt(row[4]), StrToInt(row[5]))

LocalChars == Alpha \cup Digits \cup {".", "_", "%", "+", "-"}

DomainChars == Alpha \cup Digits \cup {".", "-"}

\* re.match(r'^[a-zA-Z0-9._%+-]+@[a-zA-Z0-9.-]+\.[a-zA-Z]{2,}$', email)
EmailOk(s) ==
    \E a \in 1..Len(s), d \in 1..Len(s) :
        /\ s[a] = "@"
        /\ a > 1
        /\ AllIn(SubSeq(s, 1, a - 1), LocalChars)
        /\ s[d] = "."
        /\ d > a + 1
        /\ AllIn(SubSeq(s, a + 1, d - 1), DomainChars)
        /\ Len(s) - d >= 2
        /\ AllIn(SubSeq(s, d + 1, Len(s)), Alpha)

\* Member(...) with join_date a datetime: __post_init__ checks the email
Member(member_id, name, password_hash, email, join_date) ==
    IF EmailOk(email)
    THEN [ok |-> TRUE,
          item |-> [member_id |-> member_id, name |-> name,
                    password_hash |-> password_hash, email |-> email,
                    join_date |-> join_date]]
    ELSE [ok |-> FALSE, item |-> NoItem]

\* Member.to_csv_row
MemberToRow(m) ==
    <<m.member_id, m.name, m.password_hash, m.email, FormatDate(m.join_date)>>

\* Member.from_csv_row: join_date arrives as text and is parsed by strptime
MemberFromRow(row) ==
    IF Len(row) # 5 THEN [ok |-> FALSE, item |-> NoItem]
    ELSE IF ~IsDateStr(row[5]) THEN [ok |-> FALSE, item |-> NoItem]
    ELSE Member(row[1], row[2], row[3], row[4], ParseDate(row[5]))

\* Loan(...) with datetime arguments: nothing is validated
Loan(loan_id, member_id, isbn, issue_date, due_date, return_date) ==
    [loan_id |-> loan_id, member_id |-> member_id, isbn |-> isbn,
     issue_date |-> issue_date, due_date |-> due_date,
     return_date |-> return_date]

\* Loan.to_csv_row
LoanToRow(l) ==
    <<l.loan_id, l.member_id, l.isbn,
      FormatDate(l.issue_date), FormatDate(l.due_date),
      IF l.return_date # NoneDate THEN FormatDate(l.return_date) ELSE <<>>>>

\* Loan.from_csv_row: the three dates arrive as text
LoanFromRow(row) ==
    IF Len(row) # 6 THEN [ok |-> FALSE, item |-> NoItem]
    ELSE IF ~(IsDateStr(row[4]) /\ IsDateStr(row[5]))
    THEN [ok |-> FALSE, item |-> NoItem]
    ELSE IF Len(row[6]) # 0 /\ ~IsDateStr(row[6])
    THEN [ok |-> FALSE, item |-> NoItem]
    ELSE [ok |-> TRUE,
          item |-> Loan(row[1], row[2], row[3],
                        ParseDate(row[4]), ParseDate(row[5]),
                        IF Len(row[6]) # 0 THEN ParseDate(row[6])
                        ELSE NoneDate)]

\* Loan.is_overdue at clock reading t
is_overdue(l, t) == l.return_date = NoneDate /\ t > l.due_date

\* ---------------------------------------------------------- generic store
\* The header row written for each model class
Header(cls) ==
    CASE cls = "Book" ->
           <<"ISBN", "Title", "Author", "CopiesTotal", "CopiesAvailable">>
      [] cls = "Member" ->
           <<"MemberID", "Name", "PasswordHash", "Email", "JoinDate">>
      [] cls = "Loan" ->
           <<"LoanID", "MemberID", "ISBN", "IssueDate", "DueDate",
             "ReturnDate">>

FromRow(cls, row) ==
    CASE cls = "Book" -> BookFromRow(row)
      [] cls = "Member" -> MemberFromRow(row)
      [] cls = "Loan" -> LoanFromRow(row)

ToRow(cls, item) ==
    CASE cls = "Book" -> BookToRow(item)
      [] cls = "Member" -> MemberToRow(item)
      [] cls = "Loan" -> LoanToRow(item)

\* The identifying key the store compares (isbn / member_id / loan_id)
KeyOf(cls, item) ==
    CASE cls = "Book" -> item.isbn
      [] cls = "Member" -> item.member_id
      [] cls = "Loan" -> item.loan_id

\* Storage.ensure_data_dir: a new file holds the header row only
EmptyFile(cls) == <<Header(cls)>>

\* Mutant of load_all: a row that does not parse is skipped
load_all_Skip(file, cls) ==
    IF Len(file) = 0 THEN [raised |-> TRUE, items |-> <<>>]
    ELSE LET parsed == [i \in 1..(Len(file) - 1) |-> FromRow(cls, file[i + 1])]
             Good(x) == x.ok
             good == SelectSeq(parsed, Good)
         IN  [raised |-> FALSE,
              items |-> [i \in 1..Len(good) |-> good[i].item]]

\* Storage.load_all: skip the header, parse every row; raised when the file
\* has no header row to skip or a row does not parse
load_all(file, cls) ==
    IF Len(file) = 0 THEN [raised |-> TRUE, items |-> <<>>]
    ELSE LET Loaded(parsed) ==
                 IF \A i \in 1..Len(parsed) : parsed[i].ok
                 THEN [raised |-> FALSE,
                       items |-> [i \in 1..Len(parsed) |-> parsed[i].item]]
                 ELSE [raised |-> TRUE, items |-> <<>>]
         IN  Loaded([i \in 1..(Len(file) - 1) |-> FromRow(cls, file[i + 1])])

\* Storage.save_all: the whole file is rewritten
save_all(items, cls) ==
    <<Header(cls)>> \o [i \in 1..Len(items) |-> ToRow(cls, items[i])]

\* Mutant of add_item: the key is not compared with the stored keys
add_item_NoCheck(file, cls, item) ==
    LET l == load_all(file, cls)
    IN  IF l.raised THEN [raised |-> TRUE, file |-> file]
        ELSE [raised |-> FALSE,
              file |-> save_all(Append(l.items, item), cls)]

\* Storage.add_item
add_item(file, cls, item) ==
    LET l == load_all(file, cls)
    IN  IF l.raised THEN [raised |-> TRUE, file |-> file]
        ELSE IF \E i \in 1..Len(l.items) :
                    KeyOf(cls, l.items[i]) = KeyOf(cls, item)
        THEN [raised |-> TRUE, file |-> file]
        ELSE [raised |-> FALSE,
              file |-> save_all(Append(l.items, item), cls)]

\* Mutant of update_item: the record is put in the place of the first record
\* of the file
update_item_Head(file, cls, item) ==
    LET l == load_all(file, cls)
        hits == {i \in 1..Len(l.items) :
                    KeyOf(cls, l.items[i]) = KeyOf(cls, item)}
    IN  IF l.raised THEN [raised |-> TRUE, file |-> file]
        ELSE IF hits = {} THEN [raised |-> TRUE, file |-> file]
        ELSE [raised |-> FALSE,
              file |-> save_all([l.items EXCEPT ![1] = item], cls)]

\* Mutant of update_item: every record with the key is replaced
update_item_All(file, cls, item) ==
    LET l == load_all(file, cls)
        hits == {i \in 1..Len(l.items) :
                    KeyOf(cls, l.items[i]) = KeyOf(cls, item)}
    IN  IF l.raised THEN [raised |-> TRUE, file |-> file]
        ELSE IF hits = {} THEN [raised |-> TRUE, file |-> file]
        ELSE [raised |-> FALSE,
              file |-> save_all([i \in 1..Len(l.items) |->
                                    IF i \in hits THEN item ELSE l.items[i]],
                                cls)]

\* Storage.update_item: the first record with the key is replaced
update_item(file, cls, item) ==
    LET l == load_all(file, cls)
        hits == {i \in 1..Len(l.items) :
                    KeyOf(cls, l.items[i]) = KeyOf(cls, item)}
    IN  IF l.raised THEN [raised |-> TRUE, file |-> file]
        ELSE IF hits = {} THEN [raised |-> TRUE, file |-> file]
        ELSE LET first == CHOOSE i \in hits : \A j \in hits : i <= j
             IN  [raised |-> FALSE,
                  file |-> save_all([l.items EXCEPT ![first] = item], cls)]

\* Mutant of delete_item: only the first record with the key is dropped
delete_item_First(file, cls, item_id) ==
    LET l == load_all(file, cls)
        hits == {i \in 1..Len(l.items) : KeyOf(cls, l.items[i]) = item_id}
        first == CHOOSE i \in hits : \A j \in hits : i <= j
    IN  IF l.raised THEN [raised |-> TRUE, file |-> file]
        ELSE IF hits = {} THEN [raised |-> TRUE, file |-> file]
        ELSE [raised |-> FALSE,
              file |-> save_all(SubSeq(l.items, 1, first - 1)
                                \o SubSeq(l.items, first + 1, Len(l.items)),
                                cls)]

\* Storage.delete_item: every record with the key is dropped
delete_item(file, cls, item_id) ==
    LET l == load_all(file, cls)
        Keep(x) == KeyOf(cls, x) # item_id
        kept == SelectSeq(l.items, Keep)
    IN  IF l.raised THEN [raised |-> TRUE, file |-> file]
        ELSE IF Len(kept) = Len(l.items) THEN [raised |-> TRUE, file |-> file]
        ELSE [raised |-> FALSE, file |-> save_all(kept, cls)]

\* Storage.get_item_by_id: the first record with the key, or None
get_item_by_id(file, cls, item_id) ==
    LET l == load_all(file, cls)
        hits == {i \in 1..Len(l.items) : KeyOf(cls, l.items[i]) = item_id}
    IN  IF l.raised THEN [raised |-> TRUE, found |-> FALSE, item |-> NoItem]
        ELSE IF hits = {}
        THEN [raised |-> FALSE, found |-> FALSE, item |-> NoItem]
        ELSE [raised |-> FALSE, found |-> TRUE,
              item |-> l.items[CHOOSE i \in hits : \A j \in hits : i <= j]]

\* ----------------------------------------------------- specialised stores
\* Mutant of get_member_by_email: the two addresses are compared as written
get_member_by_email_Exact(file, email) ==
    LET l == load_all(file, "Member")
        hits == {i \in 1..Len(l.items) : l.items[i].email = email}
    IN  IF l.raised THEN [raised |-> TRUE, found |-> FALSE, item |-> NoItem]
        ELSE IF hits = {}
        THEN [raised |-> FALSE, found |-> FALSE, item |-> NoItem]
        ELSE [raised |-> FALSE, found |-> TRUE,
              item |-> l.items[CHOOSE i \in hits : \A j \in hits : i <= j]]

\* MemberStorage.get_member_by_email: case-insensitive exact match
get_member_by_email(file, email) ==
    LET l == load_all(file, "Member")
        hits == {i \in 1..Len(l.items) :
                    Lower(l.items[i].email) = Lower(email)}
    IN  IF l.raised THEN [raised |-> TRUE, found |-> FALSE, item |-> NoItem]
        ELSE IF hits = {}
        THEN [raised |-> FALSE, found |-> FALSE, item |-> NoItem]
        ELSE [raised |-> FALSE, found |-> TRUE,
              item |-> l.items[CHOOSE i \in hits : \A j \in hits : i <= j]]

\* LoanStorage.get_active_loans_for_member
get_active_loans_for_member(file, member_id) ==
    LET l == load_all(file, "Loan")
        Test(x) == x.member_id = member_id /\ x.return_date = NoneDate
    IN  [raised |-> l.raised, items |-> SelectSeq(l.items, Test)]

\* Mutant of get_overdue_loans: the return date is not looked at
get_overdue_loans_Returned(file, t) ==
    LET l == load_all(file, "Loan")
        Test(x) == x.due_date < t
    IN  [raised |-> l.raised, items |-> SelectSeq(l.items, Test)]

\* LoanStorage.get_overdue_loans at clock reading t
get_overdue_loans(file, t) ==
    LET l == load_all(file, "Loan")
        Test(x) == x.return_date = NoneDate /\ x.due_date < t
    IN  [raised |-> l.raised, items |-> SelectSeq(l.items, Test)]

\* Mutant of get_loans_for_book: the loans on the other books are returned
get_loans_for_book_Other(file, isbn) ==
    LET l == load_all(file, "Loan")
        Test(x) == x.isbn # isbn
    IN  [raised |-> l.raised, items |-> SelectSeq(l.items, Test)]

\* LoanStorage.get_loans_for_book
get_loans_for_book(file, isbn) ==
    LET l == load_all(file, "Loan")
        Test(x) == x.isbn = isbn
    IN  [raised |-> l.raised, items |-> SelectSeq(l.items, Test)]

\* max(int(x.<key>) for x in items), for a non-empty sequence
MaxId(cls, items) ==
    LET ids == {StrToInt(KeyOf(cls, items[i])) : i \in 1..Len(items)}
    IN  CHOOSE m \in ids : \A n \in ids : n <= m

\* Mutant of generate_loan_id: two is added to the id of the last loan
generate_loan_id_Skip(file) ==
    LET l == load_all(file, "Loan")
    IN  IF l.raised THEN [raised |-> TRUE, id |-> <<>>]
        ELSE IF Len(l.items) = 0
        THEN [raised |-> FALSE, id |-> IntToStr(FirstLoanId)]
        ELSE [raised |-> FALSE,
              id |-> IntToStr(StrToInt(l.items[Len(l.items)].loan_id) + 2)]

\* LoanStorage.generate_loan_id
generate_loan_id(file) ==
    LET l == load_all(file, "Loan")
    IN  IF l.raised THEN [raised |-> TRUE, id |-> <<>>]
        ELSE IF Len(l.items) = 0
        THEN [raised |-> FALSE, id |-> IntToStr(FirstLoanId)]
        ELSE IF \E i \in 1..Len(l.items) : ~IsIntStr(l.items[i].loan_id)
        THEN [raised |-> TRUE, id |-> <<>>]
        ELSE [raised |-> FALSE,
              id |-> IntToStr(MaxId("Loan", l.items) + 1)]

\* ---------------------------------------------------------------- library
\* What an operation hands back, with the stores as it leaves them.  ok and
\* err stand for the (success, message) pair; count, late and days are the
\* numbers the message carries; new_id is the id the call assigned and before
\* the copies_available the call read from the book it acts on.
Outcome(books, members, loans, ok, err) ==
    [books |-> books, members |-> members, loans |-> loans,
     ok |-> ok, err |-> err, count |-> 0, late |-> FALSE, days |-> 0,
     new_id |-> <<>>, before |-> 0]

\* Mutant of NoCopies: the comparison is strict
NoCopies_Strict(book) == book.copies_available < 0

\* library.py: "if book.copies_available <= 0"
NoCopies(book) == book.copies_available <= 0

\* Mutant of IssuedBook: the decrement is forgotten
IssuedBook_NoDecrement(book) == book

\* library.py: "book.copies_available -= 1"
IssuedBook(book) == [book EXCEPT !.copies_available = @ - 1]

\* Mutant of NewLoan: the loan period is a day short
NewLoan_Short(loan_id, member_id, isbn, t) ==
    Loan(loan_id, member_id, isbn, t, t + DaysDelta(LoanDays - 1), NoneDate)

\* Mutant of NewLoan: the loan is born returned
NewLoan_Returned(loan_id, member_id, isbn, t) ==
    Loan(loan_id, member_id, isbn, t, t + DaysDelta(LoanDays), t)

\* library.py: the Loan built by issue_book at clock reading t
NewLoan(loan_id, member_id, isbn, t) ==
    Loan(loan_id, member_id, isbn, t, t + DaysDelta(LoanDays), NoneDate)

\* Mutant of AlreadyReturned: the check is missing
AlreadyReturned_Never(loan) == FALSE

\* library.py: "if loan.return_date"
AlreadyReturned(loan) == loan.return_date # NoneDate

\* Mutant of ReturnedLoan: the return date is not assigned
ReturnedLoan_NoDate(loan, t) == loan

\* library.py: "loan.return_date = datetime.now()"
ReturnedLoan(loan, t) == [loan EXCEPT !.return_date = t]

\* Mutant of ReturnedBook: the copy is put back twice
ReturnedBook_Twice(book) == [book EXCEPT !.copies_available = @ + 2]

\* Mutant of ReturnedBook: the copy is not put back
ReturnedBook_NoIncrement(book) == book

\* library.py: "book.copies_available += 1"
ReturnedBook(book) == [book EXCEPT !.copies_available = @ + 1]

\* Mutant of ActiveLoans: no loan is counted
ActiveLoans_None(items) == <<>>

\* Mutant of ActiveLoans: returned loans are counted too
ActiveLoans_All(items) == items

\* library.py: "[loan for loan in loans if not loan.return_date]"
ActiveLoans(items) ==
    LET Test(x) == x.return_date = NoneDate
    IN  SelectSeq(items, Test)

\* Library.add_book
add_book(books, members, loans, isbn, title, author, copies) ==
    IF Len(isbn) = 0 \/ title = "" \/ author = "" \/ copies <= 0
    THEN Outcome(books, members, loans, FALSE, "Invalid")
    ELSE LET b == Book(isbn, title, author, copies, copies)
         IN  IF ~b.ok THEN Outcome(books, members, loans, FALSE, "ValueError")
             ELSE LET a == add_item(books, "Book", b.item)
                  IN  IF a.raised
                      THEN Outcome(books, members, loans, FALSE, "ValueError")
                      ELSE Outcome(a.file, members, loans, TRUE, "")

\* Mutant of delete_book: the lookups are outside the try block
delete_book_Unguarded(books, members, loans, isbn) ==
    LET b == get_item_by_id(books, "Book", isbn)
        ls == get_loans_for_book(loans, isbn)
        active == ActiveLoans(ls.items)
        d == delete_item(books, "Book", isbn)
    IN  IF b.raised THEN Outcome(books, members, loans, FALSE, "Propagated")
        ELSE IF ~b.found
        THEN Outcome(books, members, loans, FALSE, "BookNotFound")
        ELSE IF ls.raised
        THEN Outcome(books, members, loans, FALSE, "Propagated")
        ELSE IF Len(active) # 0
        THEN [Outcome(books, members, loans, FALSE, "BookHasActiveLoans")
                 EXCEPT !.count = Len(active)]
        ELSE IF d.raised
        THEN Outcome(books, members, loans, FALSE, "Exception")
        ELSE Outcome(d.file, members, loans, TRUE, "")

\* Library.delete_book
delete_book(books, members, loans, isbn) ==
    LET b == get_item_by_id(books, "Book", isbn)
        ls == get_loans_for_book(loans, isbn)
        active == ActiveLoans(ls.items)
        d == delete_item(books, "Book", isbn)
    IN  IF b.raised THEN Outcome(books, members, loans, FALSE, "Exception")
        ELSE IF ~b.found
        THEN Outcome(books, members, loans, FALSE, "BookNotFound")
        ELSE IF ls.raised
        THEN Outcome(books, members, loans, FALSE, "Exception")
        ELSE IF Len(active) # 0
        THEN [Outcome(books, members, loans, FALSE, "BookHasActiveLoans")
                 EXCEPT !.count = Len(active)]
        ELSE IF d.raised
        THEN Outcome(books, members, loans, FALSE, "Exception")
        ELSE Outcome(d.file, members, loans, TRUE, "")

\* Mutant of issue_book: the book is written before the member is looked up
issue_book_WriteFirst(books, members, loans, isbn, member_id, t) ==
    LET b == get_item_by_id(books, "Book", isbn)
        m == get_item_by_id(members, "Member", member_id)
        g == generate_loan_id(loans)
        loan == NewLoan(g.id, member_id, isbn, t)
        u == update_item(books, "Book", IssuedBook(b.item))
        a == add_item(loans, "Loan", loan)
    IN  IF b.raised THEN Outcome(books, members, loans, FALSE, "Exception")
        ELSE IF ~b.found
        THEN Outcome(books, members, loans, FALSE, "BookNotFound")
        ELSE IF NoCopies(b.item)
        THEN Outcome(books, members, loans, FALSE, "NoCopiesAvailable")
        ELSE IF u.raised
        THEN Outcome(books, members, loans, FALSE, "Exception")
        ELSE IF m.raised
        THEN Outcome(u.file, members, loans, FALSE, "Exception")
        ELSE IF ~m.found
        THEN Outcome(u.file, members, loans, FALSE, "MemberNotFound")
        ELSE IF g.raised
        THEN Outcome(u.file, members, loans, FALSE, "Exception")
        ELSE IF a.raised
        THEN Outcome(u.file, members, loans, FALSE, "Exception")
        ELSE [Outcome(u.file, members, a.file, TRUE, "")
                 EXCEPT !.new_id = g.id, !.before = b.item.copies_available]

\* Mutant of issue_book: a member holding an active loan on the isbn is refused
issue_book_OnePerMember(books, members, loans, isbn, member_id, t) ==
    LET b == get_item_by_id(books, "Book", isbn)
        m == get_item_by_id(members, "Member", member_id)
        g == generate_loan_id(loans)
        u == update_item(books, "Book", IssuedBook(b.item))
        a == add_item(loans, "Loan", NewLoan(g.id, member_id, isbn, t))
    IN  IF b.raised THEN Outcome(books, members, loans, FALSE, "Exception")
        ELSE IF ~b.found
        THEN Outcome(books, members, loans, FALSE, "BookNotFound")
        ELSE IF m.raised
        THEN Outcome(books, members, loans, FALSE, "Exception")
        ELSE IF ~m.found
        THEN Outcome(books, members, loans, FALSE, "MemberNotFound")
        ELSE IF NoCopies(b.item)
        THEN Outcome(books, members, loans, FALSE, "NoCopiesAvailable")
        ELSE IF g.raised
        THEN Outcome(books, members, loans, FALSE, "Exception")
        ELSE IF \E i \in 2..Len(loans) :
                   /\ loans[i][2] = member_id
                   /\ loans[i][3] = isbn
                   /\ loans[i][6] = <<>>
        THEN Outcome(books, members, loans, FALSE, "AlreadyBorrowed")
        ELSE IF u.raised
        THEN Outcome(books, members, loans, FALSE, "Exception")
        ELSE IF a.raised
        THEN Outcome(u.file, members, loans, FALSE, "Exception")
        ELSE [Outcome(u.file, members, a.file, TRUE, "")
                 EXCEPT !.new_id = g.id, !.before = b.item.copies_available]

\* Library.issue_book at clock reading t
issue_book(books, members, loans, isbn, member_id, t) ==
    LET b == get_item_by_id(books, "Book", isbn)
        m == get_item_by_id(members, "Member", member_id)
        g == generate_loan_id(loans)
        loan == NewLoan(g.id, member_id, isbn, t)
        u == update_item(books, "Book", IssuedBook(b.item))
        a == add_item(loans, "Loan", loan)
    IN  IF b.raised THEN Outcome(books, members, loans, FALSE, "Exception")
        ELSE IF ~b.found
        THEN Outcome(books, members, loans, FALSE, "BookNotFound")
        ELSE IF m.raised
        THEN Outcome(books, members, loans, FALSE, "Exception")
        ELSE IF ~m.found
        THEN Outcome(books, members, loans, FALSE, "MemberNotFound")
        ELSE IF NoCopies(b.item)
        THEN Outcome(books, members, loans, FALSE, "NoCopiesAvailable")
        ELSE IF g.raised
        THEN Outcome(books, members, loans, FALSE, "Exception")
        ELSE IF u.raised
        THEN Outcome(books, members, loans, FALSE, "Exception")
        ELSE IF a.raised
        THEN Outcome(u.file, members, loans, FALSE, "Exception")
        ELSE [Outcome(u.file, members, a.file, TRUE, "")
                 EXCEPT !.new_id = g.id, !.before = b.item.copies_available]

\* Mutant of issue_book_writes: the loan is written before the book
issue_book_writes_LoanFirst(books, members, loans, isbn, member_id, t) ==
    LET b == get_item_by_id(books, "Book", isbn)
        g == generate_loan_id(loans)
        u == update_item(books, "Book", IssuedBook(b.item))
        a == add_item(loans, "Loan", NewLoan(g.id, member_id, isbn, t))
    IN  <<[books |-> books, loans |-> a.file],
          [books |-> u.file, loans |-> a.file]>>

\* Library.issue_book, for a call that passes its checks: the book file and
\* the loan file as they are after the first and after the second of its
\* two writes ("self.book_storage.update_item(book)", then
\* "self.loan_storage.add_item(loan)")
issue_book_writes(books, members, loans, isbn, member_id, t) ==
    LET b == get_item_by_id(books, "Book", isbn)
        g == generate_loan_id(loans)
        u == update_item(books, "Book", IssuedBook(b.item))
        a == add_item(loans, "Loan", NewLoan(g.id, member_id, isbn, t))
    IN  <<[books |-> u.file, loans |-> loans],
          [books |-> u.file, loans |-> a.file]>>

\* Mutant of HeldBook: the Book is read again when it is written
HeldBook_Reloaded(call, books) ==
    get_item_by_id(books, "Book", call.isbn).item

\* library.py: "book", the object issue_book got from get_item_by_id at its
\* start and hands to update_item later
HeldBook(call, books) == call.book

\* Library.return_book at clock reading t.  is_overdue is asked of the loan
\* object after its return_date has been assigned.
return_book(books, members, loans, loan_id, t) ==
    LET l == get_item_by_id(loans, "Loan", loan_id)
        b == get_item_by_id(books, "Book", l.item.isbn)
        m == get_item_by_id(members, "Member", l.item.member_id)
        loan == ReturnedLoan(l.item, t)
        ul == update_item(loans, "Loan", loan)
        ub == update_item(books, "Book", ReturnedBook(b.item))
    IN  IF l.raised THEN Outcome(books, members, loans, FALSE, "Exception")
        ELSE IF ~l.found
        THEN Outcome(books, members, loans, FALSE, "LoanNotFound")
        ELSE IF AlreadyReturned(l.item)
        THEN Outcome(books, members, loans, FALSE, "AlreadyReturned")
        ELSE IF b.raised
        THEN Outcome(books, members, loans, FALSE, "Exception")
        ELSE IF ~b.found
        THEN Outcome(books, members, loans, FALSE, "BookNotFound")
        ELSE IF m.raised
        THEN Outcome(books, members, loans, FALSE, "Exception")
        ELSE IF ~m.found
        THEN Outcome(books, members, loans, FALSE, "MemberNotFound")
        ELSE IF ul.raised
        THEN Outcome(books, members, loans, FALSE, "Exception")
        ELSE IF ub.raised
        THEN Outcome(books, members, ul.file, FALSE, "Exception")
        ELSE IF is_overdue(loan, t)
        THEN [Outcome(ub.file, members, ul.file, TRUE, "")
                 EXCEPT !.late = TRUE, !.days = WholeDays(t, loan.due_date),
                        !.before = b.item.copies_available]
        ELSE [Outcome(ub.file, members, ul.file, TRUE, "")
                 EXCEPT !.before = b.item.copies_available]

\* Mutant of return_book_writes: the book is written before the loan
return_book_writes_BookFirst(books, members, loans, loan_id, t) ==
    LET l == get_item_by_id(loans, "Loan", loan_id)
        b == get_item_by_id(books, "Book", l.item.isbn)
        ul == update_item(loans, "Loan", ReturnedLoan(l.item, t))
        ub == update_item(books, "Book", ReturnedBook(b.item))
    IN  <<[books |-> ub.file, loans |-> loans],
          [books |-> ub.file, loans |-> ul.file]>>

\* Library.return_book, for a call that passes its checks: the book file and
\* the loan file as they are after the first and after the second of its
\* two writes ("self.loan_storage.update_item(loan)", then
\* "self.book_storage.update_item(book)")
return_book_writes(books, members, loans, loan_id, t) ==
    LET l == get_item_by_id(loans, "Loan", loan_id)
        b == get_item_by_id(books, "Book", l.item.isbn)
        ul == update_item(loans, "Loan", ReturnedLoan(l.item, t))
        ub == update_item(books, "Book", ReturnedBook(b.item))
    IN  <<[books |-> books, loans |-> ul.file],
          [books |-> ub.file, loans |-> ul.file]>>

\* Mutant of Resolves: the member is not looked at
Resolves_BookOnly(b, m) == b.found

\* library.py: "if book and member", of two get_item_by_id results
Resolves(b, m) == b.found /\ m.found

\* Library.get_overdue_loans at clock reading t: the overdue loans of the
\* loan store, each with its Book and its Member; a loan whose book or member
\* is not found is left out.  Nothing is caught: a store that raises makes
\* the call raise.
Library_get_overdue_loans(books, members, loans, t) ==
    LET o == get_overdue_loans(loans, t)
        BookOf(x) == get_item_by_id(books, "Book", x.isbn)
        MemberOf(x) == get_item_by_id(members, "Member", x.member_id)
        Joined(x) == Resolves(BookOf(x), MemberOf(x))
        kept == SelectSeq(o.items, Joined)
    IN  IF o.raised THEN [raised |-> TRUE, items |-> <<>>]
        ELSE IF \E i \in 1..Len(o.items) :
                    BookOf(o.items[i]).raised \/ MemberOf(o.items[i]).raised
        THEN [raised |-> TRUE, items |-> <<>>]
        ELSE [raised |-> FALSE,
              items |-> [i \in 1..Len(kept) |->
                            <<kept[i], BookOf(kept[i]).item,
                              MemberOf(kept[i]).item>>]]

\* Library.get_loan_history: every loan of the store that names the member,
\* each with its Book; a loan whose book is not found is left out.
get_loan_history(books, members, loans, member_id) ==
    LET l == load_all(loans, "Loan")
        Mine(x) == x.member_id = member_id
        member_loans == SelectSeq(l.items, Mine)
        BookOf(x) == get_item_by_id(books, "Book", x.isbn)
        Joined(x) == BookOf(x).found
        kept == SelectSeq(member_loans, Joined)
    IN  IF l.raised THEN [raised |-> TRUE, items |-> <<>>]
        ELSE IF \E i \in 1..Len(member_loans) : BookOf(member_loans[i]).raised
        THEN [raised |-> TRUE, items |-> <<>>]
        ELSE [raised |-> FALSE,
              items |-> [i \in 1..Len(kept) |->
                            <<kept[i], BookOf(kept[i]).item>>]]

\* ------------------------------------------------------------------- auth
\* validate_password
validate_password(password) ==
    /\ Len(password) >= MinPasswordLen
    /\ \E i \in 1..Len(password) : password[i] \in UpperAlpha
    /\ \E i \in 1..Len(password) : password[i] \in LowerAlpha
    /\ \E i \in 1..Len(password) : password[i] \in Digits

\* validate_email
validate_email(email) == EmailOk(email)

\* Member.hash_password: the digest is opaque to everything modelled here
hash_password(password) == <<"bcrypt", password>>

\* Mutant of NextMemberId: two is added to the greatest id
NextMemberId_Skip(items) ==
    IF Len(items) = 0 THEN IntToStr(FirstMemberId)
    ELSE IntToStr(MaxId("Member", items) + 2)

\* auth.py: the member id register_member gives, from the members it loaded
NextMemberId(items) ==
    IF Len(items) = 0 THEN IntToStr(FirstMemberId)
    ELSE IntToStr(MaxId("Member", items) + 1)

\* register_member at clock reading t
register_member(books, members, loans, name, email, password, confirm, t) ==
    LET e == get_member_by_email(members, email)
        l == load_all(members, "Member")
        member_id == NextMemberId(l.items)
        new_member == Member(member_id, name, hash_password(password),
                             email, t)
        a == add_item(members, "Member", new_member.item)
    IN  IF password # confirm
        THEN Outcome(books, members, loans, FALSE, "PasswordMismatch")
        ELSE IF ~validate_password(password)
        THEN Outcome(books, members, loans, FALSE, "WeakPassword")
        ELSE IF ~validate_email(email)
        THEN Outcome(books, members, loans, FALSE, "InvalidEmail")
        ELSE IF e.raised
        THEN Outcome(books, members, loans, FALSE, "Propagated")
        ELSE IF e.found
        THEN Outcome(books, members, loans, FALSE, "EmailTaken")
        ELSE IF a.raised
        THEN Outcome(books, members, loans, FALSE, "RegistrationFailed")
        ELSE [Outcome(books, a.file, loans, TRUE, "")
                 EXCEPT !.new_id = member_id]

\* ------------------------------------------------------------------ state
VARIABLES
    books_csv,      \* books.csv: header row, then one row per Book
    members_csv,    \* members.csv
    loans_csv,      \* loans.csv
    now,            \* the reading datetime.now() gives
    last,           \* the most recent call: its name, arguments and result
    calls           \* per session, the issue_book call it is in the middle of

vars == <<books_csv, members_csv, loans_csv, now, last, calls>>

\* The sessions that use one data directory at the same time
Sessions == {"s1", "s2"}

\* A session that is not inside a call
Idle == [pc |-> "idle"]

\* ----------------------------------------------------------------- inputs
Isbn13 == <<"9", "7", "8", "0", "1", "3", "2", "3", "5", "0", "8", "8", "4">>

Isbn10 == <<"0", "1", "3", "2", "3", "5", "0", "8", "8", "2">>

BadIsbn == <<"9", "7", "8", "X">>

\* The isbns a caller names when it issues, deletes or looks up
IsbnInputs == {Isbn13, Isbn10}

CopiesInputs == {1, 2}

\* add_book's arguments <<isbn, title, author, copies>>: every well-formed
\* call, and one call for each way a field can be wrong
AddBookInputs ==
    {<<isbn, "Clean Code", "Robert C. Martin", copies>> :
        isbn \in IsbnInputs, copies \in CopiesInputs}
    \cup {<<BadIsbn, "Clean Code", "Robert C. Martin", 1>>,
          <<<<>>, "Clean Code", "Robert C. Martin", 1>>,
          <<Isbn13, "", "Robert C. Martin", 1>>,
          <<Isbn13, "Clean Code", "", 1>>,
          <<Isbn13, "Clean Code", "Robert C. Martin", 0>>}

EmailA == <<"a", "@", "x", ".", "i", "o">>

EmailUpperA == <<"A", "@", "x", ".", "i", "o">>

EmailB == <<"b", "@", "x", ".", "i", "o">>

EmailUpperB == <<"B", "@", "X", ".", "I", "O">>

EmailC == <<"c", "@", "x", ".", "i", "o">>

BadEmail == <<"a", "@", "x">>

GoodPassword == <<"P", "a", "s", "s", "w", "0", "r", "d">>

WeakPassword == <<"p", "w">>

\* register_member's arguments <<name, email, password, confirm_password>>:
\* one address in two spellings, and one call for each way a field can be
\* wrong
RegisterInputs ==
    {<<"Test User", email, GoodPassword, GoodPassword>> :
        email \in {EmailA, EmailUpperA, BadEmail}}
    \cup {<<"Test User", EmailA, WeakPassword, WeakPassword>>,
          <<"Test User", EmailA, GoodPassword, WeakPassword>>}

\* The member ids a caller names: the first id assigned and the one after
MemberIdInputs == {IntToStr(FirstMemberId), IntToStr(FirstMemberId + 1)}

\* The loan ids a caller names: every id that can exist and the one after
LoanIdInputs == {IntToStr(FirstLoanId + k) : k \in 0..MaxLoans}

\* The instants at which the clock is read: part-way through day 0, the
\* same time of day LoanDays later, and the same time the day after that.
Times == {1, 1 + DaysDelta(LoanDays), 1 + DaysDelta(LoanDays + 1)}

\* ---------------------------------------------------------------- actions
\* What is remembered of a call: its name, its key argument and its result
Call(op, key, r) ==
    [op |-> op, key |-> key, ok |-> r.ok, err |-> r.err, count |-> r.count,
     late |-> r.late, days |-> r.days, new_id |-> r.new_id,
     before |-> r.before]

Apply(op, key, r) ==
    /\ books_csv' = r.books
    /\ members_csv' = r.members
    /\ loans_csv' = r.loans
    /\ last' = Call(op, key, r)
    /\ UNCHANGED <<now, calls>>

\* Library(data_dir) on a new directory: three files with a header row each
Init ==
    /\ books_csv = EmptyFile("Book")
    /\ members_csv = EmptyFile("Member")
    /\ loans_csv = EmptyFile("Loan")
    /\ now = 1
    /\ last = Call("init", <<>>, Outcome(<<>>, <<>>, <<>>, TRUE, ""))
    /\ calls = [s \in Sessions |-> Idle]

\* Time passes between two calls.
Tick ==
    \E t \in Times :
        /\ t > now
        /\ now' = t
        /\ last' = Call("tick", <<>>, Outcome(<<>>, <<>>, <<>>, TRUE, ""))
        /\ UNCHANGED <<books_csv, members_csv, loans_csv, calls>>

AddBook(inputs) ==
    \E in \in inputs :
        Apply("add_book", in[1],
              add_book(books_csv, members_csv, loans_csv,
                       in[1], in[2], in[3], in[4]))

DeleteBook(isbns) ==
    \E isbn \in isbns :
        Apply("delete_book", isbn,
              delete_book(books_csv, members_csv, loans_csv, isbn))

RegisterMember(inputs) ==
    \E in \in inputs :
        Apply("register_member", in[2],
              register_member(books_csv, members_csv, loans_csv,
                              in[1], in[2], in[3], in[4], now))

IssueBook(isbns, member_ids) ==
    /\ Len(loans_csv) - 1 < MaxLoans
    /\ \E isbn \in isbns, member_id \in member_ids :
        Apply("issue_book", <<isbn, member_id>>,
              issue_book(books_csv, members_csv, loans_csv,
                         isbn, member_id, now))

ReturnBook(loan_ids) ==
    \E loan_id \in loan_ids :
        Apply("return_book", loan_id,
              return_book(books_csv, members_csv, loans_csv, loan_id, now))

\* A query changes no file; count is the length of the list it returns.
Query(op, key, q) ==
    Apply(op, key,
          [Outcome(books_csv, members_csv, loans_csv, ~q.raised,
                   IF q.raised THEN "Propagated" ELSE "")
              EXCEPT !.count = Len(q.items)])

OverdueReport ==
    Query("get_overdue_loans", <<>>,
          Library_get_overdue_loans(books_csv, members_csv, loans_csv, now))

LoanHistory(member_ids) ==
    \E member_id \in member_ids :
        Query("get_loan_history", member_id,
              get_loan_history(books_csv, members_csv, loans_csv, member_id))

\* One session of the librarian and the members, all of it at one reading
\* of the clock.
Next ==
    \/ AddBook(AddBookInputs)
    \/ DeleteBook(IsbnInputs)
    \/ RegisterMember(RegisterInputs)
    \/ IssueBook(IsbnInputs, MemberIdInputs)
    \/ ReturnBook(LoanIdInputs)

Spec == Init /\ [][Next]_vars

\* One book and one member over the whole loan period.
ClockBookInputs ==
    {<<Isbn13, "Clean Code", "Robert C. Martin", copies>> :
        copies \in CopiesInputs}

ClockRegisterInputs == {<<"Test User", EmailA, GoodPassword, GoodPassword>>}

NextClock ==
    \/ Tick
    \/ AddBook(ClockBookInputs)
    \/ DeleteBook({Isbn13})
    \/ RegisterMember(ClockRegisterInputs)
    \/ IssueBook({Isbn13}, {IntToStr(FirstMemberId)})
    \/ ReturnBook(LoanIdInputs)
    \/ OverdueReport
    \/ LoanHistory({IntToStr(FirstMemberId)})

SpecClock == Init /\ [][NextClock]_vars

\* The file behind the store of each model class
FileOf(cls) ==
    CASE cls = "Book" -> books_csv
      [] cls = "Member" -> members_csv
      [] cls = "Loan" -> loans_csv

\* The same file after the step
FileOfNext(cls) ==
    CASE cls = "Book" -> books_csv'
      [] cls = "Member" -> members_csv'
      [] cls = "Loan" -> loans_csv'

\* A call on one store, r its [raised, file] result: the other two files
\* stay, and a raised ValueError is the failure of the call.
StoreCall(op, cls, key, r) ==
    Apply(op, <<cls, key>>,
          Outcome(IF cls = "Book" THEN r.file ELSE books_csv,
                  IF cls = "Member" THEN r.file ELSE members_csv,
                  IF cls = "Loan" THEN r.file ELSE loans_csv,
                  ~r.raised, IF r.raised THEN "ValueError" ELSE ""))

\* Storage.delete_item called on a store directly
DeleteItem(cls, keys) ==
    \E key \in keys :
        StoreCall("delete_item", cls, key, delete_item(FileOf(cls), cls, key))

\* Two books of one copy each and one member over the loan period, with
\* records removed from the book store and the member store underneath
\* the loans that name them; every loan stays out.
OrphanBookInputs ==
    {<<isbn, "Clean Code", "Robert C. Martin", 1>> : isbn \in IsbnInputs}

NextOrphan ==
    \/ Tick
    \/ AddBook(OrphanBookInputs)
    \/ RegisterMember(ClockRegisterInputs)
    \/ IssueBook(IsbnInputs, {IntToStr(FirstMemberId)})
    \/ DeleteItem("Book", IsbnInputs)
    \/ DeleteItem("Member", {IntToStr(FirstMemberId)})
    \/ OverdueReport

SpecOrphan == Init /\ [][NextOrphan]_vars

\* Registrations only, over several days: three addresses, two of them in
\* two spellings, and one call for each way a field can be wrong.
AuthInputs ==
    {<<"Test User", email, GoodPassword, GoodPassword>> :
        email \in {EmailA, EmailUpperA, EmailB, EmailUpperB, EmailC, BadEmail}}
    \cup {<<"Test User", EmailA, WeakPassword, WeakPassword>>,
          <<"Test User", EmailA, GoodPassword, WeakPassword>>}

NextAuth ==
    \/ Tick
    \/ RegisterMember(AuthInputs)

SpecAuth == Init /\ [][NextAuth]_vars

\* Storage.add_item called on a store directly; the record is the argument
AddItem(cls, items) ==
    \E item \in items :
        StoreCall("add_item", cls, item, add_item(FileOf(cls), cls, item))

\* Storage.update_item called on a store directly
UpdateItem(cls, items) ==
    \E item \in items :
        StoreCall("update_item", cls, item,
                  update_item(FileOf(cls), cls, item))

\* The Books a caller constructs: each isbn with its one copy in or out
BookRecords ==
    {Book(isbn, "Clean Code", "Robert C. Martin", 1, available).item :
        isbn \in IsbnInputs, available \in {0, 1}}

\* The Members a caller constructs at clock reading t
MemberRecords(t) ==
    {Member(IntToStr(FirstMemberId), "Test User",
            hash_password(GoodPassword), EmailA, t).item,
     Member(IntToStr(FirstMemberId + 1), "Test User",
            hash_password(GoodPassword), EmailB, t).item}

\* The Loans a caller constructs at clock reading t
LoanRecords(t) ==
    {NewLoan(IntToStr(FirstLoanId + k), IntToStr(FirstMemberId), Isbn13, t) :
        k \in 0..1}

\* The three stores used directly, with records that come from the
\* constructors.
NextStore ==
    \/ AddItem("Book", BookRecords)
    \/ AddItem("Member", MemberRecords(now))
    \/ AddItem("Loan", LoanRecords(now))
    \/ UpdateItem("Book", BookRecords)
    \/ DeleteItem("Book", IsbnInputs)
    \/ DeleteItem("Member", MemberIdInputs)
    \/ DeleteItem("Loan", {IntToStr(FirstLoanId)})

SpecStore == Init /\ [][NextStore]_vars

\* update_item as issue_book and return_book call it: with the Book that
\* get_item_by_id returned, after "copies_available -= 1" (which issue_book
\* does when a copy is left) or "copies_available += 1".
UpdateLoaded(isbns) ==
    \E isbn \in isbns :
        LET g == get_item_by_id(books_csv, "Book", isbn)
        IN  /\ ~g.raised
            /\ g.found
            /\ \E item \in {ReturnedBook(g.item)} \cup
                            (IF NoCopies(g.item) THEN {}
                             ELSE {IssuedBook(g.item)}) :
                  StoreCall("update_item", "Book", item,
                            update_item(books_csv, "Book", item))

\* Books of one or two copies
MutateBookRecords ==
    {Book(isbn, "Clean Code", "Robert C. Martin", copies, copies).item :
        isbn \in IsbnInputs, copies \in CopiesInputs}

\* The book store used directly: records from the constructor are added,
\* records that were loaded and changed are written back.
NextMutate ==
    \/ AddItem("Book", MutateBookRecords)
    \/ UpdateItem("Book", MutateBookRecords)
    \/ UpdateLoaded(IsbnInputs)

SpecMutate == Init /\ [][NextMutate]_vars

\* Storage.get_item_by_id called on a store directly; count is 1 when a
\* record is returned and 0 when None is
GetItem(cls, keys) ==
    \E key \in keys :
        LET g == get_item_by_id(FileOf(cls), cls, key)
        IN  Apply("get_item_by_id", <<cls, key>>,
                  [Outcome(books_csv, members_csv, loans_csv, ~g.raised,
                           IF g.raised THEN "ValueError" ELSE "")
                      EXCEPT !.count = IF g.found THEN 1 ELSE 0])

\* A books.csv that is in the data directory when the store is opened and
\* holds two rows under one isbn
DupImage ==
    <<Header("Book"),
      BookToRow(Book(Isbn13, "Clean Code", "Robert C. Martin", 1, 1).item),
      BookToRow(Book(Isbn10, "Refactoring", "Martin Fowler", 1, 1).item),
      BookToRow(Book(Isbn13, "Clean Code", "Robert C. Martin", 1, 0).item)>>

\* Storage(data_dir, ...) on a directory that is new or holds a books.csv
InitFiles ==
    /\ books_csv \in {EmptyFile("Book"), DupImage}
    /\ members_csv = EmptyFile("Member")
    /\ loans_csv = EmptyFile("Loan")
    /\ now = 1
    /\ last = Call("init", <<>>, Outcome(<<>>, <<>>, <<>>, TRUE, ""))
    /\ calls = [s \in Sessions |-> Idle]

NextFiles ==
    \/ AddItem("Book", BookRecords)
    \/ UpdateItem("Book", BookRecords)
    \/ DeleteItem("Book", IsbnInputs)
    \/ GetItem("Book", IsbnInputs)

SpecFiles == InitFiles /\ [][NextFiles]_vars

\* A good Book row, and rows that Book.from_csv_row refuses: a row of four
\* fields, a count that is no number, an isbn of the wrong shape, and more
\* copies available than there are
GoodRow ==
    BookToRow(Book(Isbn13, "Clean Code", "Robert C. Martin", 1, 1).item)

ShortRow == <<Isbn10, "Refactoring", "Martin Fowler", <<"1">>>>

NoNumberRow == <<Isbn10, "Refactoring", "Martin Fowler", <<"x">>, <<"1">>>>

BadIsbnRow == <<BadIsbn, "Refactoring", "Martin Fowler", <<"1">>, <<"1">>>>

TooManyRow == <<Isbn10, "Refactoring", "Martin Fowler", <<"1">>, <<"2">>>>

\* books.csv files with one such row, after or before a good row
CorruptImages ==
    {<<Header("Book"), GoodRow, bad>> :
        bad \in {ShortRow, NoNumberRow, BadIsbnRow, TooManyRow}}
    \cup {<<Header("Book"), TooManyRow, GoodRow>>}

\* Storage(data_dir, ...) on a directory that is new or holds such a file
InitCorrupt ==
    /\ books_csv \in CorruptImages \cup {EmptyFile("Book")}
    /\ members_csv = EmptyFile("Member")
    /\ loans_csv = EmptyFile("Loan")
    /\ now = 1
    /\ last = Call("init", <<>>, Outcome(<<>>, <<>>, <<>>, TRUE, ""))
    /\ calls = [s \in Sessions |-> Idle]

SpecCorrupt == InitCorrupt /\ [][NextFiles]_vars

\* What save_all can leave behind when the process stops inside it: open(..,
\* 'w') has emptied the file, and the header and the rows are written one
\* after the other, so the file holds the first k rows of the new image,
\* possibly followed by the first fields of the next row.
PartialImages(image) ==
    {SubSeq(image, 1, k) : k \in 0..(Len(image) - 1)}
    \cup UNION {{Append(SubSeq(image, 1, k), SubSeq(image[k + 1], 1, j)) :
                    j \in 1..(Len(image[k + 1]) - 1)} :
                k \in 0..(Len(image) - 1)}

\* A call on one store that gets as far as save_all and is stopped inside it
InterruptedCall(op, cls, key, r) ==
    /\ ~r.raised
    /\ \E image \in PartialImages(r.file) :
          Apply(op, <<cls, key>>,
                Outcome(IF cls = "Book" THEN image ELSE books_csv,
                        IF cls = "Member" THEN image ELSE members_csv,
                        IF cls = "Loan" THEN image ELSE loans_csv,
                        FALSE, "Interrupted"))

AddItemInterrupted(cls, items) ==
    \E item \in items :
        InterruptedCall("add_item", cls, item,
                        add_item(FileOf(cls), cls, item))

UpdateItemInterrupted(cls, items) ==
    \E item \in items :
        InterruptedCall("update_item", cls, item,
                        update_item(FileOf(cls), cls, item))

DeleteItemInterrupted(cls, keys) ==
    \E key \in keys :
        InterruptedCall("delete_item", cls, key,
                        delete_item(FileOf(cls), cls, key))

\* The book store used directly by a process that can be stopped while it
\* writes and is then started again.
NextCrash ==
    \/ AddItem("Book", BookRecords)
    \/ UpdateItem("Book", BookRecords)
    \/ DeleteItem("Book", IsbnInputs)
    \/ AddItemInterrupted("Book", BookRecords)
    \/ UpdateItemInterrupted("Book", BookRecords)
    \/ DeleteItemInterrupted("Book", IsbnInputs)

SpecCrash == Init /\ [][NextCrash]_vars

\* The files of issue_book before its writes, after the first and after the
\* second
IssueStages(isbn, member_id) ==
    <<[books |-> books_csv, loans |-> loans_csv]>>
    \o issue_book_writes(books_csv, members_csv, loans_csv,
                         isbn, member_id, now)

\* The files one store call can leave when it is stopped inside save_all:
\* the file it does not write is as before
CutFile(before, after) ==
    IF after = before THEN {before} ELSE PartialImages(after)

\* The files issue_book can leave when the process stops between the stage
\* prev and the stage next of its writes
IssueCuts(prev, next) ==
    {[books |-> prev.books, loans |-> prev.loans, err |-> "Interrupted"]}
    \cup {[books |-> cb, loans |-> cl, err |-> "InterruptedInSave"] :
            cb \in CutFile(prev.books, next.books),
            cl \in CutFile(prev.loans, next.loans)}

\* issue_book on a call that passes its checks, with the process stopped
\* after done of its two writes: between two statements ("Interrupted") or
\* inside the save_all of the next write ("InterruptedInSave").  count is
\* the number of writes that were completed.
IssueBookInterrupted(isbns, member_ids) ==
    \E isbn \in isbns, member_id \in member_ids, done \in {0, 1} :
        /\ issue_book(books_csv, members_csv, loans_csv,
                      isbn, member_id, now).ok
        /\ \E stages \in {IssueStages(isbn, member_id)} :
              \E cut \in IssueCuts(stages[done + 1], stages[done + 2]) :
                 Apply("issue_book", <<isbn, member_id>>,
                       [Outcome(cut.books, members_csv, cut.loans,
                                FALSE, cut.err)
                           EXCEPT !.count = done])

\* One book and one member, with issue_book stopped part-way and the
\* program started again.
NextIssueCrash ==
    \/ AddBook(ClockBookInputs)
    \/ RegisterMember(ClockRegisterInputs)
    \/ IssueBook({Isbn13}, {IntToStr(FirstMemberId)})
    \/ ReturnBook(LoanIdInputs)
    \/ IssueBookInterrupted({Isbn13}, {IntToStr(FirstMemberId)})

SpecIssueCrash == Init /\ [][NextIssueCrash]_vars

\* A lending call that passes its checks and is stopped between its two
\* writes: the first write is in the files, the second is not, and nothing
\* is returned.  count is the number of writes that were completed.
StoppedBetween(op, key, r, writes) ==
    /\ r.ok
    /\ \E stage \in {writes[1]} :
          Apply(op, key,
                [Outcome(stage.books, members_csv, stage.loans,
                         FALSE, "Interrupted")
                    EXCEPT !.count = 1])

\* issue_book, run to its end or stopped between its writes
IssueBookOrStop(isbns, member_ids) ==
    \E isbn \in isbns, member_id \in member_ids :
        \E r \in {issue_book(books_csv, members_csv, loans_csv,
                             isbn, member_id, now)} :
            \/ /\ Len(loans_csv) - 1 < MaxLoans
               /\ Apply("issue_book", <<isbn, member_id>>, r)
            \/ StoppedBetween("issue_book", <<isbn, member_id>>, r,
                              issue_book_writes(books_csv, members_csv,
                                                loans_csv, isbn, member_id,
                                                now))

\* return_book, run to its end or stopped between its writes
ReturnBookOrStop(loan_ids) ==
    \E loan_id \in loan_ids :
        \E r \in {return_book(books_csv, members_csv, loans_csv,
                              loan_id, now)} :
            \/ Apply("return_book", loan_id, r)
            \/ StoppedBetween("return_book", loan_id, r,
                              return_book_writes(books_csv, members_csv,
                                                 loans_csv, loan_id, now))

\* One process, one book and one member; a lending call can be stopped
\* between its two writes and the program started again.
NextStopped ==
    \/ AddBook(ClockBookInputs)
    \/ DeleteBook({Isbn13})
    \/ RegisterMember(ClockRegisterInputs)
    \/ IssueBookOrStop({Isbn13}, {IntToStr(FirstMemberId)})
    \/ ReturnBookOrStop(LoanIdInputs)

SpecStopped == Init /\ [][NextStopped]_vars

\* issue_book run by a session in four steps, each of them one or two calls
\* on a store, with the steps of another session in between.
\* A step that makes issue_book return is recorded as "issue_book"; a step
\* after which the call goes on is recorded under the name of the step.
Returns(s, key, r) ==
    /\ books_csv' = r.books
    /\ members_csv' = r.members
    /\ loans_csv' = r.loans
    /\ last' = Call("issue_book", key, r)
    /\ calls' = [calls EXCEPT ![s] = Idle]
    /\ UNCHANGED now

GoesOn(s, step, call, r) ==
    /\ books_csv' = r.books
    /\ members_csv' = r.members
    /\ loans_csv' = r.loans
    /\ last' = Call(step, <<call.isbn, call.member_id>>, r)
    /\ calls' = [calls EXCEPT ![s] = call]
    /\ UNCHANGED now

Refused(err) == Outcome(books_csv, members_csv, loans_csv, FALSE, err)

\* The number of issue_book calls in progress
InProgress == Cardinality({s \in Sessions : calls[s].pc # "idle"})

\* "book = get_item_by_id(isbn)", "member = get_item_by_id(member_id)" and
\* the three checks
IssueRead(s, isbns, member_ids) ==
    /\ calls[s].pc = "idle"
    /\ Len(loans_csv) - 1 + InProgress < MaxLoans
    /\ \E isbn \in isbns, member_id \in member_ids :
        LET b == get_item_by_id(books_csv, "Book", isbn)
            m == get_item_by_id(members_csv, "Member", member_id)
            key == <<isbn, member_id>>
        IN  IF b.raised THEN Returns(s, key, Refused("Exception"))
            ELSE IF ~b.found THEN Returns(s, key, Refused("BookNotFound"))
            ELSE IF m.raised THEN Returns(s, key, Refused("Exception"))
            ELSE IF ~m.found THEN Returns(s, key, Refused("MemberNotFound"))
            ELSE IF NoCopies(b.item)
            THEN Returns(s, key, Refused("NoCopiesAvailable"))
            ELSE GoesOn(s, "issue_book:read",
                        [pc |-> "checked", isbn |-> isbn,
                         member_id |-> member_id, book |-> b.item],
                        [Outcome(books_csv, members_csv, loans_csv, TRUE, "")
                            EXCEPT !.before = b.item.copies_available])

\* "loan_id = generate_loan_id()" and "loan = Loan(...)"
IssueName(s) ==
    /\ calls[s].pc = "checked"
    /\ LET c == calls[s]
           g == generate_loan_id(loans_csv)
       IN  IF g.raised
           THEN Returns(s, <<c.isbn, c.member_id>>, Refused("Exception"))
           ELSE GoesOn(s, "issue_book:generate_loan_id",
                       [pc |-> "named", isbn |-> c.isbn,
                        member_id |-> c.member_id, book |-> c.book,
                        loan |-> NewLoan(g.id, c.member_id, c.isbn, now)],
                       [Outcome(books_csv, members_csv, loans_csv, TRUE, "")
                           EXCEPT !.new_id = g.id])

\* "book.copies_available -= 1" and "update_item(book)"
IssueWriteBook(s) ==
    /\ calls[s].pc = "named"
    /\ LET c == calls[s]
           held == HeldBook(c, books_csv)
           u == update_item(books_csv, "Book", IssuedBook(held))
       IN  IF u.raised
           THEN Returns(s, <<c.isbn, c.member_id>>, Refused("Exception"))
           ELSE GoesOn(s, "issue_book:update_item",
                       [c EXCEPT !.pc = "book_written"],
                       [Outcome(u.file, members_csv, loans_csv, TRUE, "")
                           EXCEPT !.before = c.book.copies_available])

\* "add_item(loan)" and the return
IssueWriteLoan(s) ==
    /\ calls[s].pc = "book_written"
    /\ LET c == calls[s]
           a == add_item(loans_csv, "Loan", c.loan)
       IN  IF a.raised
           THEN Returns(s, <<c.isbn, c.member_id>>, Refused("Exception"))
           ELSE Returns(s, <<c.isbn, c.member_id>>,
                        [Outcome(books_csv, members_csv, a.file, TRUE, "")
                            EXCEPT !.new_id = c.loan.loan_id,
                                   !.before = c.book.copies_available])

\* Two sessions on one book and one member: their issue_book calls run step
\* by step, everything else in one piece.
NextRace ==
    \/ AddBook(ClockBookInputs)
    \/ RegisterMember(ClockRegisterInputs)
    \/ ReturnBook(LoanIdInputs)
    \/ \E s \in Sessions :
          \/ IssueRead(s, {Isbn13}, {IntToStr(FirstMemberId)})
          \/ IssueName(s)
          \/ IssueWriteBook(s)
          \/ IssueWriteLoan(s)

SpecRace == Init /\ [][NextRace]_vars

\* A loans.csv with a row whose due date is empty
CorruptLoanImage ==
    <<Header("Loan"),
      <<IntToStr(FirstLoanId), IntToStr(FirstMemberId), Isbn13,
        FormatDate(0), <<>>, <<>>>>>>

\* Library(data_dir) on a directory that is new, or holds a books.csv with
\* a row that does not parse, or a books.csv or loans.csv of no lines at
\* all, or a loans.csv with a row that does not parse
InitDamaged ==
    /\ books_csv \in CorruptImages \cup {EmptyFile("Book"), <<>>}
    /\ members_csv = EmptyFile("Member")
    /\ loans_csv \in {EmptyFile("Loan"), <<>>, CorruptLoanImage}
    /\ now = 1
    /\ last = Call("init", <<>>, Outcome(<<>>, <<>>, <<>>, TRUE, ""))
    /\ calls = [s \in Sessions |-> Idle]

\* add_book's arguments on one isbn: the well-formed calls and one call for
\* each way a field can be wrong
DamagedBookInputs ==
    ClockBookInputs
    \cup {<<BadIsbn, "Clean Code", "Robert C. Martin", 1>>,
          <<<<>>, "Clean Code", "Robert C. Martin", 1>>,
          <<Isbn13, "", "Robert C. Martin", 1>>,
          <<Isbn13, "Clean Code", "", 1>>,
          <<Isbn13, "Clean Code", "Robert C. Martin", 0>>}

NextDamaged ==
    \/ AddBook(DamagedBookInputs)
    \/ DeleteBook(IsbnInputs)
    \/ RegisterMember(ClockRegisterInputs)
    \/ IssueBook(IsbnInputs, MemberIdInputs)
    \/ ReturnBook(LoanIdInputs)

SpecDamaged == InitDamaged /\ [][NextDamaged]_vars

\* An isbn as it is read from a line of input that keeps its line end
Isbn13Line == Append(Isbn13, "\n")

\* add_book's arguments in the catalogue runs: those of AddBookInputs, and
\* the isbn with its line end
CatalogueInputs ==
    AddBookInputs
    \cup {<<Isbn13Line, "Clean Code", "Robert C. Martin", copies>> :
            copies \in CopiesInputs}

\* Library.add_book; the call is remembered with its four arguments
AddBookCall(inputs) ==
    \E in \in inputs :
        Apply("add_book", in,
              add_book(books_csv, members_csv, loans_csv,
                       in[1], in[2], in[3], in[4]))

\* The librarian's catalogue: books are added and deleted, nothing is lent.
NextCatalogue ==
    \/ AddBookCall(CatalogueInputs)
    \/ DeleteBook(IsbnInputs \cup {Isbn13Line})

SpecCatalogue == Init /\ [][NextCatalogue]_vars

\* ------------------------------------------------- reading the files back
\* Vocabulary of the properties below; none of it is a step of the program.
\* The rows of a file are read by the column orders the store writes:
\* a Book row is <<isbn, title, author, total, available>>, a Loan row is
\* <<loan_id, member_id, isbn, issue, due, return>>.
HasKey(file, key) == \E i \in 2..Len(file) : file[i][1] = key

RowOf(file, key) ==
    file[CHOOSE i \in 2..Len(file) :
            file[i][1] = key /\ \A j \in 2..(i - 1) : file[j][1] # key]

TotalIn(file, isbn) == StrToInt(RowOf(file, isbn)[4])

AvailIn(file, isbn) == StrToInt(RowOf(file, isbn)[5])

\* The rows of the loans on isbn
LoansOn(file, isbn) == {i \in 2..Len(file) : file[i][3] = isbn}

\* The rows of the loans on isbn whose ReturnDate column is empty
ActiveOn(file, isbn) == {i \in LoansOn(file, isbn) : file[i][6] = <<>>}

\* The loan with this id has a return date
Returned(file, loan_id) ==
    HasKey(file, loan_id) /\ RowOf(file, loan_id)[6] # <<>>

StoresUnchanged == UNCHANGED <<books_csv, members_csv, loans_csv>>

\* The refusals that issue_book, return_book and delete_book give when a check
\* on their arguments fails
PreconditionErrors ==
    {"BookNotFound", "MemberNotFound", "NoCopiesAvailable", "LoanNotFound",
     "AlreadyReturned", "BookHasActiveLoans"}

\* ----------------------------------------------------------------- claims
\* C1: after any sequence of calls, every Book row of books.csv has
\* 0 <= CopiesAvailable <= CopiesTotal.
C1_CopiesInRange ==
    \A i \in 2..Len(books_csv) :
        /\ 0 <= StrToInt(books_csv[i][5])
        /\ StrToInt(books_csv[i][5]) <= StrToInt(books_csv[i][4])

\* C1 witness: a successful issue_book has taken the last copy of a book.
C1_Witness ==
    /\ last.op = "issue_book"
    /\ last.ok
    /\ AvailIn(books_csv, last.key[1]) = 0

\* C2: for every Book, CopiesAvailable equals CopiesTotal minus the number of
\* Loans on its isbn that have no return date.
C2_AvailabilityMatchesLoans ==
    \A i \in 2..Len(books_csv) :
        StrToInt(books_csv[i][5]) =
            StrToInt(books_csv[i][4])
                - Cardinality(ActiveOn(loans_csv, books_csv[i][1]))

\* C2 witness: two issues of one book and then one successful return: one
\* loan on the isbn is returned and one is still out.
C2_Witness ==
    /\ last.op = "return_book"
    /\ last.ok
    /\ \E isbn \in IsbnInputs :
        /\ HasKey(books_csv, isbn)
        /\ Cardinality(ActiveOn(loans_csv, isbn)) = 1
        /\ Cardinality(LoansOn(loans_csv, isbn)) = 2

\* C3: a successful issue_book(isbn, member_id) lowers that Book's
\* CopiesAvailable by exactly 1 and appends exactly one Loan row, which
\* carries the two arguments and an empty return date; the rows that were
\* there stay.
C3_IssueEffect ==
    [][(last'.op = "issue_book" /\ last'.ok) =>
        LET isbn == last'.key[1]
            member_id == last'.key[2]
            n == Len(loans_csv)
        IN  /\ HasKey(books_csv, isbn)
            /\ HasKey(books_csv', isbn)
            /\ AvailIn(books_csv', isbn) = AvailIn(books_csv, isbn) - 1
            /\ Len(loans_csv') = n + 1
            /\ SubSeq(loans_csv', 1, n) = loans_csv
            /\ loans_csv'[n + 1][1] = last'.new_id
            /\ loans_csv'[n + 1][2] = member_id
            /\ loans_csv'[n + 1][3] = isbn
            /\ loans_csv'[n + 1][6] = <<>>]_vars

\* C3 witness: an issue_book call has succeeded.
C3_Witness ==
    /\ last.op = "issue_book"
    /\ last.ok
    /\ Len(loans_csv) = 2

\* C4: issue_book on a stored Book with CopiesAvailable 0 fails, with
\* NoCopiesAvailable when the member exists, and leaves the loans and the
\* books as they were; no issue_book call leaves a negative CopiesAvailable.
C4_NoCopiesRejected ==
    [][(last'.op = "issue_book") =>
        LET isbn == last'.key[1]
            member_id == last'.key[2]
        IN  /\ (HasKey(books_csv, isbn) /\ AvailIn(books_csv, isbn) = 0) =>
                  /\ ~last'.ok
                  /\ HasKey(members_csv, member_id) =>
                        last'.err = "NoCopiesAvailable"
                  /\ loans_csv' = loans_csv
                  /\ books_csv' = books_csv
            /\ \A i \in 2..Len(books_csv') :
                  StrToInt(books_csv'[i][5]) >= 0]_vars

\* C4 witness: an issue_book call was refused for lack of copies.
C4_Witness ==
    /\ last.op = "issue_book"
    /\ ~last.ok
    /\ last.err = "NoCopiesAvailable"
    /\ AvailIn(books_csv, last.key[1]) = 0

\* C5: when issue_book, return_book or delete_book refuses a call because a
\* check on its arguments failed, the three files are exactly as before.
C5_RefusalWritesNothing ==
    [][(/\ last'.op \in {"issue_book", "return_book", "delete_book"}
        /\ ~last'.ok
        /\ last'.err \in PreconditionErrors) => StoresUnchanged]_vars

\* C5 witness: issue_book was refused for an unknown member although the
\* book is stored and has a copy to lend.
C5_Witness ==
    /\ last.op = "issue_book"
    /\ ~last.ok
    /\ last.err = "MemberNotFound"
    /\ HasKey(books_csv, last.key[1])
    /\ AvailIn(books_csv, last.key[1]) > 0

\* C6: a successful return_book(loan_id) gives the Loan a return date and
\* raises its Book's CopiesAvailable by exactly 1; when the call before it was
\* the issue_book that created this loan, CopiesAvailable is back at the value
\* that issue_book read.
C6_ReturnEffect ==
    [][(last'.op = "return_book" /\ last'.ok) =>
        LET id == last'.key
            isbn == RowOf(loans_csv, id)[3]
        IN  /\ HasKey(loans_csv, id)
            /\ Returned(loans_csv', id)
            /\ AvailIn(books_csv', isbn) = AvailIn(books_csv, isbn) + 1
            /\ (last.op = "issue_book" /\ last.ok /\ last.new_id = id) =>
                  AvailIn(books_csv', isbn) = last.before]_vars

\* C6 witness: a return_book call has succeeded and its book is complete
\* again.
C6_Witness ==
    /\ last.op = "return_book"
    /\ last.ok
    /\ LET isbn == RowOf(loans_csv, last.key)[3]
       IN  AvailIn(books_csv, isbn) = TotalIn(books_csv, isbn)

\* C7: a return_book call that succeeds leaves the loan returned, and a
\* return_book call on a loan that is already returned fails with
\* AlreadyReturned and changes none of the files.
C7_SecondReturnRejected ==
    [][(last'.op = "return_book") =>
        LET id == last'.key
        IN  /\ last'.ok => (~Returned(loans_csv, id) /\ Returned(loans_csv', id))
            /\ Returned(loans_csv, id) =>
                  /\ ~last'.ok
                  /\ last'.err = "AlreadyReturned"
                  /\ StoresUnchanged]_vars

\* C7 witness: a return_book call was refused because the loan had been
\* returned.
C7_Witness ==
    /\ last.op = "return_book"
    /\ ~last.ok
    /\ last.err = "AlreadyReturned"
    /\ Returned(loans_csv, last.key)

\* C8: a successful return_book on a loan whose due date is before the
\* current time reports a late return and the whole days between the due
\* date and now; when the due date has not passed it reports an on-time
\* return.
C8_LateReturnReported ==
    (last.op = "return_book" /\ last.ok) =>
        LET l == get_item_by_id(loans_csv, "Loan", last.key).item
        IN  IF l.due_date < now
            THEN last.late /\ last.days = WholeDays(now, l.due_date)
            ELSE ~last.late

\* C9: from one state to the next, every Loan row stays in loans.csv under
\* its loan id, and a return date, once written, is never cleared or changed.
C9_LoansOnlyMoveForward ==
    [][\A i \in 2..Len(loans_csv) :
          /\ i <= Len(loans_csv')
          /\ loans_csv'[i][1] = loans_csv[i][1]
          /\ loans_csv[i][6] # <<>> => loans_csv'[i][6] = loans_csv[i][6]]_vars

\* C9 witness: on a later day than the return, the book of a returned loan
\* has been deleted and the loan row is still in the file.
C9_Witness ==
    /\ last.op = "delete_book"
    /\ last.ok
    /\ \E i \in 2..Len(loans_csv) :
          /\ loans_csv[i][3] = last.key
          /\ loans_csv[i][6] # <<>>
          /\ loans_csv[i][6] # FormatDate(now)

\* C10: delete_book(isbn) on a stored Book fails with BookHasActiveLoans
\* exactly when some Loan on that isbn has no return date; it then reports the
\* number of such loans and the Book stays; otherwise it succeeds and the
\* Book is no longer found.
C10_DeleteBlockedByActiveLoans ==
    [][(last'.op = "delete_book" /\ HasKey(books_csv, last'.key)) =>
        LET isbn == last'.key
            n == Cardinality(ActiveOn(loans_csv, isbn))
        IN  IF n > 0
            THEN /\ ~last'.ok
                 /\ last'.err = "BookHasActiveLoans"
                 /\ last'.count = n
                 /\ books_csv' = books_csv
            ELSE /\ last'.ok
                 /\ ~get_item_by_id(books_csv', "Book", isbn).found]_vars

\* C10 witness: delete_book was refused with two copies of the book on loan.
C10_Witness ==
    /\ last.op = "delete_book"
    /\ ~last.ok
    /\ last.err = "BookHasActiveLoans"
    /\ last.count = 2

\* The overdue report of the current state
Report == Library_get_overdue_loans(books_csv, members_csv, loans_csv, now)

\* Row i of loans.csv has no return date and a due date before the clock
OverdueRow(i) ==
    loans_csv[i][6] = <<>> /\ ParseDate(loans_csv[i][5]) < now

\* Row i of loans.csv names a stored Book and a stored Member
ResolvedRow(i) ==
    HasKey(books_csv, loans_csv[i][3]) /\ HasKey(members_csv, loans_csv[i][2])

\* The places of the report that hold the loan of row i with its own Book
\* and its own Member
ReportedAt(i) ==
    {k \in 1..Len(Report.items) :
        /\ LoanToRow(Report.items[k][1]) = loans_csv[i]
        /\ BookToRow(Report.items[k][2]) = RowOf(books_csv, loans_csv[i][3])
        /\ MemberToRow(Report.items[k][3]) =
              RowOf(members_csv, loans_csv[i][2])}

\* C11: get_overdue_loans does not fail and returns exactly once the
\* (Loan, Book, Member) triple of every stored Loan that has no return date,
\* a due date before now and a stored Book and Member; every triple it
\* returns is the triple of such a loan, so no returned loan and no loan
\* that is not yet due is in it.
C11_OverdueReportExact ==
    /\ ~Report.raised
    /\ \A i \in 2..Len(loans_csv) :
          (OverdueRow(i) /\ ResolvedRow(i)) =>
              Cardinality(ReportedAt(i)) = 1
    /\ \A k \in 1..Len(Report.items) :
          \E i \in 2..Len(loans_csv) :
              OverdueRow(i) /\ ResolvedRow(i) /\ k \in ReportedAt(i)

\* C11 witness: the report was asked for with one loan overdue and another
\* loan returned, and it listed one loan.
C11_Witness ==
    /\ last.op = "get_overdue_loans"
    /\ last.ok
    /\ last.count = 1
    /\ \E i, j \in 2..Len(loans_csv) :
          OverdueRow(i) /\ loans_csv[j][6] # <<>>

\* The loan with this id is in the overdue report of the current state
InReport(loan_id) ==
    \E k \in 1..Len(Report.items) : Report.items[k][1].loan_id = loan_id

\* return_book has just succeeded on this loan, whose due date had passed
ReturnedLate(loan_id) ==
    /\ last.op = "return_book"
    /\ last.ok
    /\ last.key = loan_id
    /\ ParseDate(RowOf(loans_csv, loan_id)[5]) < now

\* C12: once return_book has succeeded on a loan whose due date had passed,
\* the loan is in no overdue report from then on, whatever calls follow and
\* however far the clock advances.
C12_ReturnedNeverOverdueAgain ==
    \A loan_id \in LoanIdInputs :
        [](ReturnedLate(loan_id) => [](~InReport(loan_id)))

\* C12 witness: the report is asked for after a loan was returned on a day
\* after its due day, while another loan is overdue and listed.
C12_Witness ==
    /\ last.op = "get_overdue_loans"
    /\ last.count = 1
    /\ \E i \in 2..Len(loans_csv) :
          /\ loans_csv[i][6] # <<>>
          /\ loans_csv[i][6][1] > loans_csv[i][5][1]
          /\ ~InReport(loans_csv[i][1])

\* C13: get_overdue_loans does not fail when an overdue loan names a Book or
\* a Member that is no longer stored: it leaves that loan out and still
\* lists, once each, every overdue loan whose Book and Member are stored.
C13_UnresolvedLoansSkipped ==
    /\ ~Report.raised
    /\ \A i \in 2..Len(loans_csv) :
          OverdueRow(i) =>
              IF ResolvedRow(i) THEN Cardinality(ReportedAt(i)) = 1
              ELSE ~InReport(loans_csv[i][1])

\* C13 witness: the report was asked for with two loans overdue, the book of
\* one of them gone from the book store, and it listed the other one.
C13_Witness ==
    /\ last.op = "get_overdue_loans"
    /\ last.ok
    /\ last.count = 1
    /\ \E i, j \in 2..Len(loans_csv) :
          /\ OverdueRow(i)
          /\ ~HasKey(books_csv, loans_csv[i][3])
          /\ OverdueRow(j)
          /\ ResolvedRow(j)

\* C14: in every state reached by add_book, issue_book, return_book and
\* delete_book, get_loan_history(member_id) does not fail and holds every
\* Loan of loans.csv that names the member, returned or not.
C14_HistoryComplete ==
    \A member_id \in MemberIdInputs :
        LET h == get_loan_history(books_csv, members_csv, loans_csv,
                                  member_id)
        IN  /\ ~h.raised
            /\ \A i \in 2..Len(loans_csv) :
                  loans_csv[i][2] = member_id =>
                      \E k \in 1..Len(h.items) :
                          LoanToRow(h.items[k][1]) = loans_csv[i]

\* The loan id of row i of loans.csv, as a number
LoanIdAt(file, i) == StrToInt(file[i][1])

\* C15: in every state generate_loan_id returns "1" when loans.csv holds no
\* loan and otherwise the greatest stored loan id plus one, which is above
\* every stored loan id; the loans that issue_book has appended carry
\* strictly increasing, hence pairwise distinct, loan ids.
C15_LoanIdsIncrease ==
    LET g == generate_loan_id(loans_csv)
        rows == 2..Len(loans_csv)
    IN  /\ ~g.raised
        /\ rows = {} => g.id = <<"1">>
        /\ \A i \in rows : StrToInt(g.id) > LoanIdAt(loans_csv, i)
        /\ rows # {} =>
              \E i \in rows : StrToInt(g.id) = LoanIdAt(loans_csv, i) + 1
        /\ \A i, j \in rows :
              i < j => LoanIdAt(loans_csv, i) < LoanIdAt(loans_csv, j)
        /\ (last.op = "issue_book" /\ last.ok) =>
              loans_csv[Len(loans_csv)][1] = last.new_id

\* C15 witness: issue_book has succeeded a second time and the loan it
\* appended has id 2.
C15_Witness ==
    /\ last.op = "issue_book"
    /\ last.ok
    /\ Len(loans_csv) = 3
    /\ last.new_id = <<"2">>
    /\ loans_csv[2][1] = <<"1">>

\* The member id of row i of members.csv, as a number
MemberIdAt(file, i) == StrToInt(file[i][1])

\* C16: a successful register_member appends one Member whose id is "1001"
\* when members.csv held no member and otherwise the greatest stored member
\* id plus one, which is above every id stored before; the member ids of the
\* file stay pairwise distinct.
C16_MemberIdsIncrease ==
    [][(last'.op = "register_member" /\ last'.ok) =>
        LET n == Len(members_csv)
            rows == 2..n
            id == StrToInt(last'.new_id)
        IN  /\ Len(members_csv') = n + 1
            /\ SubSeq(members_csv', 1, n) = members_csv
            /\ members_csv'[n + 1][1] = last'.new_id
            /\ rows = {} => last'.new_id = <<"1", "0", "0", "1">>
            /\ rows # {} =>
                  \E i \in rows : id = MemberIdAt(members_csv, i) + 1
            /\ \A i \in rows : id > MemberIdAt(members_csv, i)
            /\ \A i, j \in 2..(n + 1) :
                  i # j => members_csv'[i][1] # members_csv'[j][1]]_vars

\* C16 witness: a third member has registered and has id 1003.
C16_Witness ==
    /\ last.op = "register_member"
    /\ last.ok
    /\ last.new_id = <<"1", "0", "0", "3">>
    /\ Len(members_csv) = 4

\* Some Member row of the file has this email, ignoring case
EmailStored(file, email) ==
    \E i \in 2..Len(file) : Lower(file[i][4]) = Lower(email)

\* C17: a register_member call whose email equals, ignoring case, the email
\* of a stored Member fails and leaves members.csv as it was; after every
\* register_member call no two stored Members have emails equal ignoring
\* case.
C17_EmailsUniqueIgnoringCase ==
    [][(last'.op = "register_member") =>
        /\ EmailStored(members_csv, last'.key) =>
              (~last'.ok /\ members_csv' = members_csv)
        /\ \A i, j \in 2..Len(members_csv') :
              i # j =>
                  Lower(members_csv'[i][4]) # Lower(members_csv'[j][4])]_vars

\* C17 witness: with two members stored, a registration under the second
\* member's address in another spelling was refused.
C17_Witness ==
    /\ last.op = "register_member"
    /\ ~last.ok
    /\ last.err = "EmailTaken"
    /\ Len(members_csv) = 3
    /\ last.key # members_csv[3][4]
    /\ Lower(last.key) = Lower(members_csv[3][4])

\* C18: from_csv_row(to_csv_row(r)) = r for the records the program builds:
\* the Loan that a successful issue_book has just built at the current clock
\* reading, the Member that a successful register_member has just built,
\* and every stored Book; the Loan and the Member read back from the store
\* equal the records that were built.
C18_RoundTrip ==
    /\ (last.op = "issue_book" /\ last.ok) =>
          LET r == NewLoan(last.new_id, last.key[2], last.key[1], now)
          IN  /\ LoanFromRow(LoanToRow(r)) = [ok |-> TRUE, item |-> r]
              /\ get_item_by_id(loans_csv, "Loan", last.new_id).item = r
    /\ (last.op = "register_member" /\ last.ok) =>
          LET r == Member(last.new_id, "Test User",
                          hash_password(GoodPassword), last.key, now).item
          IN  /\ MemberFromRow(MemberToRow(r)) = [ok |-> TRUE, item |-> r]
              /\ get_item_by_id(members_csv, "Member", last.new_id).item = r
    /\ \A i \in 2..Len(books_csv) :
          LET r == BookFromRow(books_csv[i])
          IN  r.ok /\ BookFromRow(BookToRow(r.item)) = r

\* C19: after any sequence of add_item and update_item calls on the book
\* store, every Book row of books.csv parses to a Book that passes the
\* checks of its constructor, and load_all of the file does not fail.
C19_StoredBooksValid ==
    /\ \A i \in 2..Len(books_csv) : BookFromRow(books_csv[i]).ok
    /\ ~load_all(books_csv, "Book").raised

\* C20: add_item(record) on a store that holds a record with the same key
\* fails with ValueError and leaves the three files as they were; on a
\* store that holds no record with that key it succeeds, and the file is
\* the old rows followed by the row of the new record.
C20_AddAppendsOrRejects ==
    [][(last'.op = "add_item") =>
        LET cls == last'.key[1]
            item == last'.key[2]
        IN  IF HasKey(FileOf(cls), KeyOf(cls, item))
            THEN /\ ~last'.ok
                 /\ last'.err = "ValueError"
                 /\ StoresUnchanged
            ELSE /\ last'.ok
                 /\ FileOfNext(cls) = Append(FileOf(cls), ToRow(cls, item))
                 /\ \A other \in {"Book", "Member", "Loan"} \ {cls} :
                       FileOfNext(other) = FileOf(other)]_vars

\* C20 witness: add_item was refused on the book store for the key of the
\* second of two stored Books, with a record that differs from the stored
\* one.
C20_Witness ==
    /\ last.op = "add_item"
    /\ ~last.ok
    /\ last.key[1] = "Book"
    /\ Len(books_csv) = 3
    /\ books_csv[3][1] = last.key[2].isbn
    /\ books_csv[3] # BookToRow(last.key[2])

\* The rows of the file that carry this key
RowsWith(file, key) == {i \in 2..Len(file) : file[i][1] = key}

\* C21: update_item(record) on a store with a record of the same key puts
\* the record in the place of the first such record and leaves every other
\* row, the order of the rows and the other files as they were; on a store
\* with no record of that key it fails with ValueError and no file changes.
C21_UpdateReplacesFirst ==
    [][(last'.op = "update_item") =>
        LET cls == last'.key[1]
            item == last'.key[2]
            hits == RowsWith(FileOf(cls), KeyOf(cls, item))
        IN  IF hits = {}
            THEN /\ ~last'.ok
                 /\ last'.err = "ValueError"
                 /\ StoresUnchanged
            ELSE LET first == CHOOSE i \in hits : \A j \in hits : i <= j
                 IN  /\ last'.ok
                     /\ FileOfNext(cls) =
                           [FileOf(cls) EXCEPT ![first] = ToRow(cls, item)]
                     /\ \A other \in {"Book", "Member", "Loan"} \ {cls} :
                           FileOfNext(other) = FileOf(other)]_vars

\* C21 witness: update_item has succeeded on a file with two rows under the
\* record's key; the first is the new record and the other is not.
C21_Witness ==
    /\ last.op = "update_item"
    /\ last.ok
    /\ LET hits == RowsWith(books_csv, last.key[2].isbn)
       IN  /\ Cardinality(hits) = 2
           /\ \E i, j \in hits :
                 /\ i < j
                 /\ books_csv[i] = BookToRow(last.key[2])
                 /\ books_csv[j] # BookToRow(last.key[2])

\* The file without the rows that carry this key
WithoutKey(file, key) ==
    LET Keep(row) == row[1] # key
    IN  <<file[1]>> \o SelectSeq(Tail(file), Keep)

\* C22: delete_item(key) on a store with records of that key removes all of
\* them and keeps the other rows in their order, and get_item_by_id(key)
\* then returns None; on a store with no record of that key it fails with
\* ValueError and no file changes.
C22_DeleteRemovesAll ==
    [][(last'.op = "delete_item") =>
        LET cls == last'.key[1]
            key == last'.key[2]
        IN  IF RowsWith(FileOf(cls), key) = {}
            THEN /\ ~last'.ok
                 /\ last'.err = "ValueError"
                 /\ StoresUnchanged
            ELSE /\ last'.ok
                 /\ FileOfNext(cls) = WithoutKey(FileOf(cls), key)
                 /\ ~get_item_by_id(FileOfNext(cls), cls, key).raised
                 /\ ~get_item_by_id(FileOfNext(cls), cls, key).found
                 /\ \A other \in {"Book", "Member", "Loan"} \ {cls} :
                       FileOfNext(other) = FileOf(other)]_vars

\* C22 witness: of the file that held two rows under one isbn and a row
\* under another, delete_item on the first isbn has left the other row.
C22_Witness ==
    /\ last.op = "delete_item"
    /\ last.ok
    /\ last.key[2] = Isbn13
    /\ books_csv = <<DupImage[1], DupImage[3]>>

\* Some data row of the file is refused by from_csv_row
Unparsable(file, cls) == \E i \in 2..Len(file) : ~FromRow(cls, file[i]).ok

\* C23: when a data row of the backing file does not parse, load_all raises
\* instead of skipping the row, and add_item, update_item, delete_item and
\* get_item_by_id on that store raise and write nothing.
C23_CorruptRowFailsEveryCall ==
    [][(last'.op \in {"add_item", "update_item", "delete_item",
                      "get_item_by_id"}) =>
        LET cls == last'.key[1]
        IN  Unparsable(FileOf(cls), cls) =>
                /\ load_all(FileOf(cls), cls).raised
                /\ ~last'.ok
                /\ last'.err = "ValueError"
                /\ StoresUnchanged]_vars

\* C23 witness: update_item was refused for a record whose key is stored in
\* a good row, in a file whose other row does not parse.
C23_Witness ==
    /\ last.op = "update_item"
    /\ ~last.ok
    /\ Unparsable(books_csv, "Book")
    /\ \E i \in RowsWith(books_csv, last.key[2].isbn) :
          BookFromRow(books_csv[i]).ok

\* The file that a call on a readable store is to write
NewImage(op, file, cls, arg) ==
    CASE op = "add_item" -> add_item(file, cls, arg).file
      [] op = "update_item" -> update_item(file, cls, arg).file
      [] op = "delete_item" -> delete_item(file, cls, arg).file

\* C24: whatever happens to an add_item, update_item or delete_item call,
\* an interruption inside save_all included, the backing file afterwards is
\* the complete image it held before the call or the complete image the
\* call was to write, and load_all of it does not fail.
C24_SaveAllAtomic ==
    [][(last'.op \in {"add_item", "update_item", "delete_item"}) =>
        LET cls == last'.key[1]
        IN  /\ FileOfNext(cls) \in
                  {FileOf(cls),
                   NewImage(last'.op, FileOf(cls), cls, last'.key[2])}
            /\ ~load_all(FileOf(cls), cls).raised =>
                  ~load_all(FileOfNext(cls), cls).raised]_vars

\* C25: an issue_book call stopped between its two writes leaves the Book
\* with CopiesAvailable lowered by one and loans.csv as it was; and after
\* any issue_book step, stopped anywhere or not, a Loan row that was not
\* there before is only stored when the Book's CopiesAvailable has been
\* lowered by one.
C25_BookWrittenBeforeLoan ==
    [][(last'.op = "issue_book") =>
        LET isbn == last'.key[1]
            Lowered ==
                /\ ~Unparsable(books_csv', "Book")
                /\ HasKey(books_csv', isbn)
                /\ AvailIn(books_csv', isbn) = AvailIn(books_csv, isbn) - 1
            NewLoanStored ==
                \E i \in 2..Len(loans_csv') :
                    /\ i > Len(loans_csv)
                    /\ LoanFromRow(loans_csv'[i]).ok
        IN  /\ (last'.err = "Interrupted" /\ last'.count = 1) =>
                  (Lowered /\ loans_csv' = loans_csv)
            /\ NewLoanStored => Lowered]_vars

\* C25 witness: issue_book was stopped between its two writes: the one copy
\* of the book is out and no loan is stored.
C25_Witness ==
    /\ last.op = "issue_book"
    /\ last.err = "Interrupted"
    /\ last.count = 1
    /\ AvailIn(books_csv, last.key[1]) = TotalIn(books_csv, last.key[1]) - 1
    /\ Len(loans_csv) = 1

\* C26: issue_book writes back the count it read at its start less one,
\* whatever another session has written to the Book since, and nothing
\* makes it notice: the write succeeds whenever the Book is still stored.
C26_StaleCountWrittenBack ==
    [][(last'.op = "issue_book:update_item") =>
        LET isbn == last'.key[1]
        IN  /\ last'.ok
            /\ HasKey(books_csv, isbn)
            /\ AvailIn(books_csv', isbn) = last'.before - 1]_vars

\* C26 witness: two issue_book calls on a book of one copy have both
\* succeeded, so that two loans were out with the count lowered once, and
\* both loans have been returned: the book now has more copies available
\* than it has copies.
C26_Witness ==
    /\ last.op = "return_book"
    /\ last.ok
    /\ Len(loans_csv) = 3
    /\ loans_csv[2][3] = Isbn13
    /\ loans_csv[3][3] = Isbn13
    /\ Cardinality(ActiveOn(loans_csv, Isbn13)) = 0
    /\ TotalIn(books_csv, Isbn13) = 1
    /\ AvailIn(books_csv, Isbn13) = 2

\* C27: add_book, delete_book, issue_book and return_book hand back their
\* (success, message) pair on every input and every content of the files, a
\* file with an unparsable row or with no line at all included: no error of
\* a store reaches the caller; and success is only reported when the call
\* has had its effect on the files.
C27_AlwaysAPair ==
    [][(last'.op \in {"add_book", "delete_book", "issue_book",
                      "return_book"}) =>
        /\ last'.err # "Propagated"
        /\ (last'.op = "add_book" /\ last'.ok) =>
              (~HasKey(books_csv, last'.key) /\ HasKey(books_csv', last'.key))
        /\ (last'.op = "delete_book" /\ last'.ok) =>
              (HasKey(books_csv, last'.key) /\ ~HasKey(books_csv', last'.key))
        /\ (last'.op = "issue_book" /\ last'.ok) =>
              /\ Len(loans_csv') = Len(loans_csv) + 1
              /\ AvailIn(books_csv', last'.key[1]) =
                    AvailIn(books_csv, last'.key[1]) - 1
        /\ (last'.op = "return_book" /\ last'.ok) =>
              (~Returned(loans_csv, last'.key)
               /\ Returned(loans_csv', last'.key))
        /\ (Len(books_csv) = 0 \/ Unparsable(books_csv, "Book")) =>
              (~last'.ok /\ books_csv' = books_csv)]_vars

\* C27 witness: delete_book on a books.csv with an unparsable row has
\* answered with a failure.
C27_Witness ==
    /\ last.op = "delete_book"
    /\ ~last.ok
    /\ last.err = "Exception"
    /\ Unparsable(books_csv, "Book")
    /\ HasKey(books_csv, last.key)

\* C28: the Loan that a successful issue_book builds has issue_date now and
\* due_date exactly 14 days later, and every Loan read back from loans.csv
\* has a due_date exactly 14 days after its issue_date.
C28_DueAfterFourteenDays ==
    /\ (last.op = "issue_book" /\ last.ok) =>
          LET r == NewLoan(last.new_id, last.key[2], last.key[1], now)
          IN  /\ r.issue_date = now
              /\ r.due_date = now + 14 * TicksPerDay
    /\ \A i \in 2..Len(loans_csv) :
          LET l == LoanFromRow(loans_csv[i])
          IN  /\ l.ok
              /\ l.item.due_date = l.item.issue_date + 14 * TicksPerDay

\* C28 witness: issue_book has succeeded part-way through a day later than
\* day 0 and its loan is stored.
C28_Witness ==
    /\ last.op = "issue_book"
    /\ last.ok
    /\ now > TicksPerDay
    /\ now % TicksPerDay # 0
    /\ RowOf(loans_csv, last.new_id)[4] = FormatDate(now)

\* C29: after any sequence of add_book, delete_book, register_member,
\* issue_book and return_book, return_book(loan_id) succeeds exactly when
\* loans.csv holds the loan with an empty return date; on such a loan it
\* does not fail for want of the Book or the Member.
C29_ReturnSucceedsIffActive ==
    [][(last'.op = "return_book") =>
        /\ last'.ok <=>
              (HasKey(loans_csv, last'.key) /\ ~Returned(loans_csv, last'.key))
        /\ last'.err \notin {"BookNotFound", "MemberNotFound"}]_vars

\* C29 witness: return_book has succeeded on one of two loans of a book
\* that is still in the catalogue; the other loan is still out.
C29_Witness ==
    /\ last.op = "return_book"
    /\ last.ok
    /\ Returned(loans_csv, last.key)
    /\ Cardinality(ActiveOn(loans_csv, RowOf(loans_csv, last.key)[3])) = 1
    /\ HasKey(books_csv, RowOf(loans_csv, last.key)[3])

\* C30: issue_book succeeds whenever books.csv holds the isbn with a copy
\* available and members.csv holds the member id, whatever loans the member
\* already holds; each success appends one Loan row under an id that no
\* earlier row carries, for this member and this isbn, with no return date.
C30_IssueNeedsOnlyBookMemberCopy ==
    [][(last'.op = "issue_book") =>
        LET isbn == last'.key[1]
            member_id == last'.key[2]
        IN  /\ last'.ok <=>
                  /\ HasKey(books_csv, isbn)
                  /\ HasKey(members_csv, member_id)
                  /\ AvailIn(books_csv, isbn) > 0
            /\ last'.ok =>
                  /\ ~HasKey(loans_csv, last'.new_id)
                  /\ Len(loans_csv') = Len(loans_csv) + 1
                  /\ SubSeq(loans_csv', 1, Len(loans_csv)) = loans_csv
                  /\ loans_csv'[Len(loans_csv')][1] = last'.new_id
                  /\ loans_csv'[Len(loans_csv')][2] = member_id
                  /\ loans_csv'[Len(loans_csv')][3] = isbn
                  /\ loans_csv'[Len(loans_csv')][6] = <<>>]_vars

\* C30 witness: issue_book has just succeeded for a member who already held
\* an active loan on the same isbn; the two loans are two rows with two ids.
C30_Witness ==
    /\ last.op = "issue_book"
    /\ last.ok
    /\ \E i \in ActiveOn(loans_csv, last.key[1]) :
          /\ loans_csv[i][2] = last.key[2]
          /\ loans_csv[i][1] # last.new_id
          /\ RowOf(loans_csv, last.new_id)[2] = last.key[2]
          /\ RowOf(loans_csv, last.new_id)[3] = last.key[1]
          /\ RowOf(loans_csv, last.new_id)[6] = <<>>

\* C31: after any sequence of add_book, delete_book, register_member,
\* issue_book and return_book from empty stores, every row of loans.csv with
\* no return date names an isbn that books.csv holds and a member id that
\* members.csv holds.
C31_ActiveLoansResolve ==
    \A i \in 2..Len(loans_csv) :
        loans_csv[i][6] = <<>> =>
            /\ HasKey(books_csv, loans_csv[i][3])
            /\ HasKey(members_csv, loans_csv[i][2])

\* C31 witness: delete_book has just been refused on a book with a loan that
\* is still out, while the loan of another book has been returned and that
\* book deleted.
C31_Witness ==
    /\ last.op = "delete_book"
    /\ ~last.ok
    /\ ActiveOn(loans_csv, last.key) # {}
    /\ \E i \in 2..Len(loans_csv) :
          /\ loans_csv[i][6] # <<>>
          /\ ~HasKey(books_csv, loans_csv[i][3])

\* C32: in a run of one process where issue_book and return_book can be
\* stopped between their two writes, every stored Book has copies_available
\* at most copies_total minus the number of loans on its isbn with no return
\* date: copies are under-counted at worst, never over-allocated.
C32_StoppedCallsUnderCount ==
    \A i \in 2..Len(books_csv) :
        StrToInt(books_csv[i][5])
            <= StrToInt(books_csv[i][4])
               - Cardinality(ActiveOn(loans_csv, books_csv[i][1]))

\* C32 witness: a call was stopped between its writes and the book now shows
\* fewer copies than copies_total minus the loans that are out, with a loan
\* still out.
C32_Witness ==
    /\ last.err = "Interrupted"
    /\ HasKey(books_csv, Isbn13)
    /\ ActiveOn(loans_csv, Isbn13) # {}
    /\ AvailIn(books_csv, Isbn13)
          < TotalIn(books_csv, Isbn13)
            - Cardinality(ActiveOn(loans_csv, Isbn13))

\* C33: after any sequence of add_item, update_item and delete_item calls on
\* stores that start empty, no two rows of a file carry the same key, and
\* get_item_by_id on a stored key returns the record of the one row that
\* carries it.
C33_KeysUnique ==
    \A cls \in {"Book", "Member", "Loan"} :
        \A i \in 2..Len(FileOf(cls)) :
            /\ RowsWith(FileOf(cls), FileOf(cls)[i][1]) = {i}
            /\ get_item_by_id(FileOf(cls), cls, FileOf(cls)[i][1])
                  = [raised |-> FALSE, found |-> TRUE,
                     item |-> FromRow(cls, FileOf(cls)[i]).item]

\* C33 witness: update_item has just replaced the second of two stored
\* Books by a record that differs from the one that was added, and the
\* loan store holds two loans.
C33_Witness ==
    /\ last.op = "update_item"
    /\ last.ok
    /\ Len(books_csv) = 3
    /\ books_csv[3] = BookToRow(last.key[2])
    /\ books_csv[3][5] # books_csv[3][4]
    /\ books_csv[2][1] # books_csv[3][1]
    /\ Len(loans_csv) = 3

\* C34: a loan that issue_book created at clock reading t is not among the
\* loans get_overdue_loans returns at any clock reading up to and including
\* t + 14 days; stated for the clock reading of the state that follows the
\* issue, whatever step leads to it.
C34_NotOverdueWithinLoanPeriod ==
    [][(last.op = "issue_book" /\ last.ok
          /\ now' <= now + 14 * TicksPerDay) =>
        LET o == get_overdue_loans(loans_csv', now')
        IN  \A k \in 1..Len(o.items) :
                o.items[k].loan_id # last.new_id]_vars

\* C35: a successful issue_book(isbn, member_id) leaves the row of every
\* other Book, every Member row and every Loan row that was there as they
\* were; a successful return_book(loan_id) leaves the row of every other
\* Loan, of every Book but the loan's, every Member row, and the loan id,
\* member id, isbn, issue date and due date of the returned Loan as they
\* were.
C35_LendingFrame ==
    [][/\ (last'.op = "issue_book" /\ last'.ok) =>
            /\ members_csv' = members_csv
            /\ Len(books_csv') = Len(books_csv)
            /\ \A i \in 2..Len(books_csv) :
                  books_csv[i][1] # last'.key[1] =>
                      books_csv'[i] = books_csv[i]
            /\ Len(loans_csv') = Len(loans_csv) + 1
            /\ \A i \in 1..Len(loans_csv) : loans_csv'[i] = loans_csv[i]
       /\ (last'.op = "return_book" /\ last'.ok) =>
            /\ members_csv' = members_csv
            /\ Len(books_csv') = Len(books_csv)
            /\ \A i \in 2..Len(books_csv) :
                  books_csv[i][1] # RowOf(loans_csv, last'.key)[3] =>
                      books_csv'[i] = books_csv[i]
            /\ Len(loans_csv') = Len(loans_csv)
            /\ \A i \in 2..Len(loans_csv) :
                  IF loans_csv[i][1] # last'.key
                  THEN loans_csv'[i] = loans_csv[i]
                  ELSE SubSeq(loans_csv'[i], 1, 5)
                          = SubSeq(loans_csv[i], 1, 5)]_vars

\* C35 witness: return_book has succeeded on the second of two loans, which
\* are on two different books, with the first loan still out.
C35_Witness ==
    /\ last.op = "return_book"
    /\ last.ok
    /\ Len(loans_csv) = 3
    /\ Len(books_csv) = 3
    /\ loans_csv[3][1] = last.key
    /\ loans_csv[3][3] = books_csv[3][1]
    /\ loans_csv[2][3] = books_csv[2][1]
    /\ loans_csv[2][6] = <<>>

\* C36: add_book(isbn, title, author, copies) succeeds only when copies > 0,
\* the isbn is a string of ten or thirteen digits and books.csv holds no
\* Book with that isbn; on success books.csv is the old rows followed by the
\* row of the new Book, with CopiesTotal and CopiesAvailable both equal to
\* copies; on failure books.csv is as it was.
C36_AddBookChecked ==
    [][(last'.op = "add_book") =>
        LET isbn == last'.key[1]
            copies == last'.key[4]
        IN  /\ last'.ok =>
                  /\ copies > 0
                  /\ Len(isbn) \in {10, 13}
                  /\ AllIn(isbn, Digits)
                  /\ ~HasKey(books_csv, isbn)
                  /\ books_csv' =
                        Append(books_csv,
                               <<isbn, last'.key[2], last'.key[3],
                                 IntToStr(copies), IntToStr(copies)>>)
            /\ ~last'.ok => books_csv' = books_csv]_vars

=============================================================================
